---- MODULE Spec2Model ----
(***************************************************************************)
(* State-machine model of SwarmVisualizationServer (the graph state       *)
(* engine of claude-flow-swarm-visualization) and of the timer callbacks  *)
(* of GlobalAgentsIntegration that mutate its graph.                      *)
(*                                                                         *)
(* JavaScript values are modelled as follows.  An object is a TLA+ record *)
(* (a function from field names to values); a missing field reads as      *)
(* Undefined, which is also what the template literal `${undefined}`      *)
(* prints.  Date values are integers read from the clock `now`.  The      *)
(* argument of ingestClaudeFlowEvent and its `data` field, which the      *)
(* tests pass as null, undefined, a string or an object, are tagged       *)
(* values (JsNull, JsUndefined, JsString, JsObject).                      *)
(***************************************************************************)
EXTENDS Integers, Sequences, FiniteSets, TLC

VARIABLES
    nodes,      \* this.graph.nodes: sequence of node records
    edges,      \* this.graph.edges: sequence of edge records
    metrics,    \* this.graph.metrics (tagged; the empty object until computed)
    clients,    \* per socket: readyState, membership of this.clients, the
                \* messages ws.send() was given, in order, and whether a
                \* broadcast has passed it over (history)
    now,        \* the clock read by new Date() and Date.now()
    ret,        \* value returned by the last call (tagged)
    raised,     \* TRUE iff the last call threw
    last,       \* the last call: its name and arguments
    prev,       \* graph.nodes, graph.edges and clients before the last call
    sent,       \* messages handed to broadcast() by the last call, in order
    timers,     \* pending setTimeout callbacks of simulateCollaboration
    isRunning,  \* GlobalAgentsIntegration.isRunning (monitoring started)
    pollClock,  \* clock value of the last monitoring poll
    gcConfig,   \* this.gcConfig, fixed at construction
    gcInterval, \* TRUE iff this.gcInterval holds a setInterval handle
    gcTimers,   \* number of setInterval timers that have not been cleared
    progressRun,\* the current run of consecutive task_progress events (history)
    pc,         \* the statement the running callback has reached, with its
                \* locals; "idle" between callbacks
    committed,  \* graph.nodes and graph.edges when the event loop was last
                \* between callbacks (history)
    steps       \* number of calls made so far

vars == <<nodes, edges, metrics, clients, now, ret, raised, last, prev, sent, timers,
          isRunning, pollClock, gcConfig, gcInterval, gcTimers, progressRun, pc, committed,
          steps>>

----------------------------------------------------------------------------
(* Bounds of the model *)

MaxSteps == 3
MaxTime == 1

(* gcConfig, scaled down so that the thresholds are reachable *)
GcMaxNodes == 2
GcMaxEdges == 2
GcMaxAge == 0
PreserveTypes == {"GlobalAgent", "Workspace", "CoordinationHub"}
GcEnabled == TRUE

\* the gcConfig literal of the constructor
DefaultGcConfig ==
    [maxNodes |-> GcMaxNodes, maxEdges |-> GcMaxEdges, maxAge |-> GcMaxAge,
     preserveTypes |-> PreserveTypes, enabled |-> GcEnabled]

\* an age limit no record of a run can exceed
NeverOld == GcMaxAge + MaxTime + 1

\* the configurations a server is constructed with: each threshold at one
\* and at its default, records that age at once or never, the pinned types
\* or none; and the default with the timer disabled
GcConfigs ==
    [maxNodes : {1, GcMaxNodes}, maxEdges : {1, GcMaxEdges},
     maxAge : {GcMaxAge, NeverOld},
     preserveTypes : {PreserveTypes, {}}, enabled : {GcEnabled}]
    \cup {[DefaultGcConfig EXCEPT !.enabled = ~GcEnabled]}

----------------------------------------------------------------------------
(* JavaScript values *)

Undefined == "undefined"

JsNull == [js |-> "null"]
JsUndefined == [js |-> "undefined"]
JsString(s) == [js |-> "string", v |-> s]
JsObject(r) == [js |-> "object", v |-> r]

\* obj.k
Get(obj, k) == IF k \in DOMAIN obj THEN obj[k] ELSE Undefined

\* truthiness of a string-or-undefined value
Truthy(v) == v # Undefined /\ v # ""

\* { ...a, ...b }
Spread(a, b) ==
    [k \in DOMAIN a \cup DOMAIN b |-> IF k \in DOMAIN b THEN b[k] ELSE a[k]]

\* data.<k> throws a TypeError when data is null or undefined
Dereferenceable(v) == v.js \notin {"null", "undefined"}

----------------------------------------------------------------------------
(* Graph store *)

GeneratedId(type, t) == type \o "_" \o ToString(t)

NodeLabel(type, data) ==
    IF Truthy(Get(data, "name")) THEN data.name
    ELSE IF Truthy(Get(data, "title")) THEN data.title
    ELSE IF Truthy(Get(data, "path")) THEN data.path
    ELSE type

\* the object literal of addNode
NodeRecord(type, data, t) ==
    Spread(Spread([id |-> IF Truthy(Get(data, "id")) THEN data.id
                          ELSE GeneratedId(type, t),
                   type |-> type,
                   label |-> NodeLabel(type, data)],
                  data),
           [timestamp |-> t])

\* addNode without the filter
PushNodeNoFilter(ns, node) == Append(ns, node)

\* addNode merging the new record into the stored one instead of replacing it
PushNodeMerge(ns, node) ==
    Append(SelectSeq(ns, LAMBDA n : n.id # node.id),
           IF \E i \in 1..Len(ns) : ns[i].id = node.id
           THEN Spread((CHOOSE n \in {ns[i] : i \in 1..Len(ns)} : n.id = node.id),
                       node)
           ELSE node)

\* addNode leaving a stored node's timestamp and place as they were
PushNodeKeepTimestamp(ns, node) ==
    IF \E i \in 1..Len(ns) : ns[i].id = node.id
    THEN [i \in 1..Len(ns) |->
             IF ns[i].id = node.id
             THEN Spread(node, [timestamp |-> ns[i].timestamp])
             ELSE ns[i]]
    ELSE Append(ns, node)

\* filter out the node of the same id, then push
PushNode(ns, node) == Append(SelectSeq(ns, LAMBDA n : n.id # node.id), node)

EdgeId(type, from, to) == from \o "_" \o type \o "_" \o to

\* the object literal of addEdge
EdgeRecord(type, from, to, properties, t) ==
    Spread(Spread([id |-> EdgeId(type, from, to),
                   type |-> type,
                   from |-> from,
                   to |-> to],
                  properties),
           [timestamp |-> t])

\* addEdge without the filter
PushEdgeNoFilter(es, edge) == Append(es, edge)

\* filter out the edge of the same id, then push
PushEdge(es, edge) == Append(SelectSeq(es, LAMBDA e : e.id # edge.id), edge)

\* this.graph.nodes.find(n => n.id === nodeId): index of the first match, 0 if none
FindNode(ns, nodeId) ==
    IF \E i \in 1..Len(ns) : ns[i].id = nodeId
    THEN CHOOSE i \in 1..Len(ns) :
            /\ ns[i].id = nodeId
            /\ \A j \in 1..(i - 1) : ns[j].id # nodeId
    ELSE 0

\* updateNode that also renews the node's timestamp
PatchNodesRestamp(ns, nodeId, updates, t) ==
    LET i == FindNode(ns, nodeId)
    IN  IF i = 0 THEN ns
        ELSE [ns EXCEPT ![i] = Spread(Spread(@, updates),
                                      [updated |-> t, timestamp |-> t])]

\* Object.assign(node, updates, { updated: new Date() }), in place
PatchNodes(ns, nodeId, updates, t) ==
    LET i == FindNode(ns, nodeId)
    IN  IF i = 0 THEN ns
        ELSE [ns EXCEPT ![i] = Spread(Spread(@, updates), [updated |-> t])]

\* what updateNode returns: the node found, or what find() gave
UpdateNodeResult(ns, nodeId, updates, t) ==
    LET i == FindNode(ns, nodeId)
    IN  IF i = 0 THEN JsUndefined
        ELSE JsObject(PatchNodes(ns, nodeId, updates, t)[i])

\* JSON message handed to broadcast(type, data)
Message(type, data, t) == [type |-> type, data |-> data, timestamp |-> t]

----------------------------------------------------------------------------
(* WebSocket clients *)

\* the sockets that connect during a run, each once
Sockets == {"w1", "w2"}

\* no socket has connected: this.clients is empty
NoClients ==
    [w \in Sockets |-> [readyState |-> "CONNECTING", member |-> FALSE,
                        inbox |-> <<>>, skipped |-> FALSE]]

\* Date.prototype.toJSON
IsoString(t) == "date:" \o ToString(t)

\* the fields that hold a Date
DateFields == {"timestamp", "updated", "startTime"}

\* JSON.stringify of an object: a Date becomes its ISO string and a
\* property whose value is undefined is left out
JsonOf(obj) ==
    [k \in {f \in DOMAIN obj : ~(f \in {"from", "to"} /\ obj[f] = Undefined)}
        |-> IF k \in DateFields THEN IsoString(obj[k]) ELSE obj[k]]

JsonSeq(seq) == [i \in 1..Len(seq) |-> JsonOf(seq[i])]

\* an initial message that carries the nodes only
InitialMessageNodesOnly(ns, es, m) ==
    [type |-> "initial", data |-> [nodes |-> JsonSeq(ns), edges |-> <<>>]]

\* metrics: {} of the constructor's graph literal
NoMetrics == <<>>

\* the clock when the constructor's graph literal was evaluated
GraphTimestamp == 0

\* the JSON text of this.graph, as res.json and JSON.stringify give it
GraphJson(ns, es, m) ==
    [nodes |-> JsonSeq(ns), edges |-> JsonSeq(es), metrics |-> JsonOf(m.v),
     timestamp |-> IsoString(GraphTimestamp)]

\* the text of { type: 'initial', data: this.graph }
InitialMessage(ns, es, m) == [type |-> "initial", data |-> GraphJson(ns, es, m)]

\* the id vis.DataSet gives an item added without one
VisGeneratedId == "vis-generated"

\* createVisNode(nodeData).id, as the DataSet keeps it
VisNodeId(nodeData) ==
    IF "id" \in DOMAIN nodeData /\ nodeData.id # Undefined THEN nodeData.id
    ELSE VisGeneratedId

\* the browser client's handleMessage: the ids its two DataSets hold after
\* the message
HandleMessage(view, message) ==
    IF message.type = "initial"
    THEN [nodes |-> {message.data.nodes[i].id :
                        i \in 1..Len(message.data.nodes)},
          edges |-> {message.data.edges[i].id :
                        i \in 1..Len(message.data.edges)}]
    ELSE IF message.type = "node:added"
    THEN [view EXCEPT !.nodes = @ \cup {VisNodeId(message.data)}]
    ELSE IF message.type = "file:modified"
    THEN [view EXCEPT !.nodes =
              @ \cup {message.data.filePath}
                \cup (IF Truthy(Get(message.data, "workspace"))
                      THEN {message.data.workspace} ELSE {})]
    ELSE IF message.type = "edge:removed"
    THEN [view EXCEPT !.edges = @ \ {message.data.id}]
    ELSE view

\* the client's DataSets after the messages of an inbox, in order
RECURSIVE ClientView(_)
ClientView(inbox) ==
    IF inbox = <<>> THEN [nodes |-> {}, edges |-> {}]
    ELSE HandleMessage(ClientView(SubSeq(inbox, 1, Len(inbox) - 1)),
                       inbox[Len(inbox)])

RECURSIVE BroadcastUnchecked(_, _)
\* broadcast without the readyState test
BroadcastUnchecked(cs, msgs) ==
    IF msgs = <<>> THEN cs
    ELSE BroadcastUnchecked(
             [w \in Sockets |->
                 IF cs[w].member
                 THEN [cs[w] EXCEPT !.inbox = Append(@, JsonOf(Head(msgs)))]
                 ELSE cs[w]],
             Tail(msgs))

RECURSIVE Broadcast(_, _)
\* broadcast(type, data) for each message of msgs in turn
Broadcast(cs, msgs) ==
    IF msgs = <<>> THEN cs
    ELSE Broadcast([w \in Sockets |->
                       IF ~cs[w].member THEN cs[w]
                       ELSE IF cs[w].readyState = "OPEN"
                       THEN [cs[w] EXCEPT !.inbox = Append(@, JsonOf(Head(msgs)))]
                       ELSE [cs[w] EXCEPT !.skipped = TRUE]],
                   Tail(msgs))

----------------------------------------------------------------------------
(* Event handlers registered by setupClaudeFlowIntegration.  Each yields   *)
(* the graph after the handler, the messages it broadcast and whether it   *)
(* threw.  An exception leaves the listener at the statement that threw.   *)

Outcome(ns, es, msgs, threw) ==
    [nodes |-> ns, edges |-> es, sent |-> msgs, raised |-> threw]

OnSwarmCreated(data, ns, es, t) ==
    IF ~Dereferenceable(data) THEN Outcome(ns, es, <<>>, TRUE)
    ELSE Outcome(PushNode(ns, NodeRecord("Swarm", data.v, t)), es,
                 <<Message("node:added", [type |-> "Swarm", data |-> data.v], t)>>,
                 FALSE)

OnAgentSpawned(data, ns, es, t) ==
    IF ~Dereferenceable(data) THEN Outcome(ns, es, <<>>, TRUE)
    ELSE Outcome(PushNode(ns, NodeRecord("Agent", data.v, t)),
                 PushEdge(es, EdgeRecord("ORCHESTRATES", Get(data.v, "swarmId"),
                                         Get(data.v, "id"), <<>>, t)),
                 <<Message("node:added", [type |-> "Agent", data |-> data.v], t)>>,
                 FALSE)

OnTaskCreated(data, ns, es, t) ==
    IF ~Dereferenceable(data) THEN Outcome(ns, es, <<>>, TRUE)
    ELSE Outcome(PushNode(ns, NodeRecord("Task", data.v, t)), es,
                 <<Message("node:added", [type |-> "Task", data |-> data.v], t)>>,
                 FALSE)

OnTaskAssigned(data, ns, es, t) ==
    IF ~Dereferenceable(data) THEN Outcome(ns, es, <<>>, TRUE)
    ELSE Outcome(ns,
                 PushEdge(es, EdgeRecord("EXECUTES", Get(data.v, "agentId"),
                                         Get(data.v, "taskId"),
                                         [startTime |-> t], t)),
                 <<Message("edge:added",
                           [type |-> "EXECUTES",
                            from |-> Get(data.v, "agentId"),
                            to |-> Get(data.v, "taskId")], t)>>,
                 FALSE)

\* the listener upserting a Task node instead of patching the one named
OnTaskProgressUpsert(data, ns, es, t) ==
    IF ~Dereferenceable(data) THEN Outcome(ns, es, <<>>, TRUE)
    ELSE Outcome(PushNode(ns, NodeRecord("Task", data.v, t)), es,
                 <<Message("node:updated", data.v, t)>>,
                 FALSE)

OnTaskProgress(data, ns, es, t) ==
    IF ~Dereferenceable(data) THEN Outcome(ns, es, <<>>, TRUE)
    ELSE Outcome(PatchNodes(ns, Get(data.v, "taskId"),
                            [progress |-> data.v.progress,
                             status |-> "executing"], t),
                 es,
                 <<Message("node:updated", data.v, t)>>,
                 FALSE)

OnFileModified(data, ns, es, t) ==
    IF ~Dereferenceable(data) THEN Outcome(ns, es, <<>>, TRUE)
    ELSE Outcome(PushNode(ns, NodeRecord("File", data.v, t)),
                 PushEdge(es, EdgeRecord("MODIFIES", Get(data.v, "taskId"),
                                         Get(data.v, "filePath"),
                                         [operation |-> Get(data.v, "operation"),
                                          timestamp |-> t], t)),
                 <<Message("file:modified", data.v, t)>>,
                 FALSE)

OnIssueLinked(data, ns, es, t) ==
    IF ~Dereferenceable(data) THEN Outcome(ns, es, <<>>, TRUE)
    ELSE Outcome(PushNode(ns, NodeRecord("Issue", data.v, t)),
                 PushEdge(es, EdgeRecord("IMPLEMENTS", Get(data.v, "taskId"),
                                         Get(data.v, "issueId"), <<>>, t)),
                 <<Message("issue:linked", data.v, t)>>,
                 FALSE)

\* the collaboration listener with the edge drawn from receiver to sender
OnAgentCollaborationReversed(data, ns, es, t) ==
    IF ~Dereferenceable(data) THEN Outcome(ns, es, <<>>, TRUE)
    ELSE Outcome(ns,
                 PushEdge(es, EdgeRecord("COLLABORATES", Get(data.v, "to"),
                                         Get(data.v, "from"),
                                         [protocol |-> Get(data.v, "protocol"),
                                          messages |-> data.v.messages], t)),
                 <<Message("collaboration", data.v, t)>>,
                 FALSE)

OnAgentCollaboration(data, ns, es, t) ==
    IF ~Dereferenceable(data) THEN Outcome(ns, es, <<>>, TRUE)
    ELSE Outcome(ns,
                 PushEdge(es, EdgeRecord("COLLABORATES", Get(data.v, "from"),
                                         Get(data.v, "to"),
                                         [protocol |-> Get(data.v, "protocol"),
                                          messages |-> data.v.messages], t)),
                 <<Message("collaboration", data.v, t)>>,
                 FALSE)

\* event.type and event.data as ingestClaudeFlowEvent reads them
EventType(event) ==
    IF event.js = "object" THEN Get(event.v, "type") ELSE Undefined

EventData(event) ==
    IF event.js = "object" /\ "data" \in DOMAIN event.v THEN event.v.data
    ELSE JsUndefined

\* the switch of ingestClaudeFlowEvent; emit() runs the listener synchronously
IngestOutcome(event, ns, es, t) ==
    IF ~Dereferenceable(event) THEN Outcome(ns, es, <<>>, TRUE)
    ELSE LET ty == EventType(event)
             d == EventData(event)
         IN  CASE ty = "swarm_init" -> OnSwarmCreated(d, ns, es, t)
               [] ty = "agent_spawn" -> OnAgentSpawned(d, ns, es, t)
               [] ty = "task_orchestrate" -> OnTaskCreated(d, ns, es, t)
               [] ty = "task_assign" -> OnTaskAssigned(d, ns, es, t)
               [] ty = "task_progress" -> OnTaskProgress(d, ns, es, t)
               [] ty = "file_operation" -> OnFileModified(d, ns, es, t)
               [] ty = "issue_update" -> OnIssueLinked(d, ns, es, t)
               [] ty = "agent_message" -> OnAgentCollaboration(d, ns, es, t)
               [] OTHER -> Outcome(ns, es, <<>>, FALSE)

----------------------------------------------------------------------------
(* Garbage collection *)

RECURSIVE InsertBeforeEqual(_, _)
\* insert n before the first element whose timestamp is not smaller
InsertBeforeEqual(sorted, n) ==
    IF sorted = <<>> THEN <<n>>
    ELSE IF n.timestamp <= Head(sorted).timestamp THEN <<n>> \o sorted
    ELSE <<Head(sorted)>> \o InsertBeforeEqual(Tail(sorted), n)

RECURSIVE InsertByTimestamp(_, _)
\* insert n after every element whose timestamp is not greater (stable)
InsertByTimestamp(sorted, n) ==
    IF sorted = <<>> THEN <<n>>
    ELSE IF n.timestamp < Head(sorted).timestamp THEN <<n>> \o sorted
    ELSE <<Head(sorted)>> \o InsertByTimestamp(Tail(sorted), n)

RECURSIVE SortByTimestamp(_)
\* Array.prototype.sort((a, b) => a.timestamp - b.timestamp), which is stable
SortByTimestamp(ns) ==
    IF ns = <<>> THEN <<>>
    ELSE InsertByTimestamp(SortByTimestamp(SubSeq(ns, 1, Len(ns) - 1)),
                           ns[Len(ns)])

IdsOf(seq) == {seq[i].id : i \in 1..Len(seq)}

\* removableNodes.slice(0, excessCount)
Slice(seq, n) == SubSeq(seq, 1, IF n < Len(seq) THEN n ELSE Len(seq))

\* the age step without the preserveTypes test
AgeStepNoPins(ns, es, t) ==
    LET cutoffTime == t - gcConfig.maxAge
        oldNodes == SelectSeq(ns, LAMBDA n : n.timestamp < cutoffTime)
        oldNodeIds == IdsOf(oldNodes)
        oldEdges == SelectSeq(es, LAMBDA e :
                        \/ e.timestamp < cutoffTime
                        \/ e.from \in oldNodeIds
                        \/ e.to \in oldNodeIds)
        oldEdgeIds == IdsOf(oldEdges)
    IN  [nodes |-> SelectSeq(ns, LAMBDA n : n.id \notin oldNodeIds),
         edges |-> SelectSeq(es, LAMBDA e : e.id \notin oldEdgeIds)]

\* the age step that drops only the edges of old nodes
AgeStepCascadeOnly(ns, es, t) ==
    LET cutoffTime == t - gcConfig.maxAge
        oldNodes == SelectSeq(ns, LAMBDA n :
                        /\ n.timestamp < cutoffTime
                        /\ n.type \notin gcConfig.preserveTypes)
        oldNodeIds == IdsOf(oldNodes)
        oldEdges == SelectSeq(es, LAMBDA e :
                        e.from \in oldNodeIds \/ e.to \in oldNodeIds)
        oldEdgeIds == IdsOf(oldEdges)
    IN  [nodes |-> SelectSeq(ns, LAMBDA n : n.id \notin oldNodeIds),
         edges |-> SelectSeq(es, LAMBDA e : e.id \notin oldEdgeIds)]

\* the age step: old non-preserved nodes, old edges and edges of old nodes
AgeStep(ns, es, t) ==
    LET cutoffTime == t - gcConfig.maxAge
        oldNodes == SelectSeq(ns, LAMBDA n :
                        /\ n.timestamp < cutoffTime
                        /\ n.type \notin gcConfig.preserveTypes)
        oldNodeIds == IdsOf(oldNodes)
        oldEdges == SelectSeq(es, LAMBDA e :
                        \/ e.timestamp < cutoffTime
                        \/ e.from \in oldNodeIds
                        \/ e.to \in oldNodeIds)
        oldEdgeIds == IdsOf(oldEdges)
    IN  [nodes |-> SelectSeq(ns, LAMBDA n : n.id \notin oldNodeIds),
         edges |-> SelectSeq(es, LAMBDA e : e.id \notin oldEdgeIds)]

\* the size step that leaves the edges of the trimmed nodes in place
SizeStepNoCascade(ns, es) ==
    IF Len(ns) > gcConfig.maxNodes
    THEN LET removableNodes ==
                 SortByTimestamp(SelectSeq(ns, LAMBDA n :
                                     n.type \notin gcConfig.preserveTypes))
             excessCount == Len(ns) - gcConfig.maxNodes
             removeIds == IdsOf(Slice(removableNodes, excessCount))
         IN  [nodes |-> SelectSeq(ns, LAMBDA n : n.id \notin removeIds),
              edges |-> es]
    ELSE [nodes |-> ns, edges |-> es]

\* the size step taking the excess from the end of the sorted nodes
SizeStepNewest(ns, es) ==
    IF Len(ns) > gcConfig.maxNodes
    THEN LET removableNodes ==
                 SortByTimestamp(SelectSeq(ns, LAMBDA n :
                                     n.type \notin gcConfig.preserveTypes))
             excessCount == Len(ns) - gcConfig.maxNodes
             first == IF excessCount < Len(removableNodes)
                      THEN Len(removableNodes) - excessCount + 1 ELSE 1
             removeIds ==
                 IdsOf(SubSeq(removableNodes, first, Len(removableNodes)))
         IN  [nodes |-> SelectSeq(ns, LAMBDA n : n.id \notin removeIds),
              edges |-> SelectSeq(es, LAMBDA e :
                            e.from \notin removeIds /\ e.to \notin removeIds)]
    ELSE [nodes |-> ns, edges |-> es]

\* the size step trimming one node per sweep
SizeStepOneAtATime(ns, es) ==
    IF Len(ns) > gcConfig.maxNodes
    THEN LET removableNodes ==
                 SortByTimestamp(SelectSeq(ns, LAMBDA n :
                                     n.type \notin gcConfig.preserveTypes))
             removeIds == IdsOf(Slice(removableNodes, 1))
         IN  [nodes |-> SelectSeq(ns, LAMBDA n : n.id \notin removeIds),
              edges |-> SelectSeq(es, LAMBDA e :
                            e.from \notin removeIds /\ e.to \notin removeIds)]
    ELSE [nodes |-> ns, edges |-> es]

\* the size step listing the surviving nodes newest first
SizeStepNewestFirst(ns, es) ==
    IF Len(ns) > gcConfig.maxNodes
    THEN LET removableNodes ==
                 SortByTimestamp(SelectSeq(ns, LAMBDA n :
                                     n.type \notin gcConfig.preserveTypes))
             excessCount == Len(ns) - gcConfig.maxNodes
             removeIds == IdsOf(Slice(removableNodes, excessCount))
             kept == SelectSeq(ns, LAMBDA n : n.id \notin removeIds)
         IN  [nodes |-> [i \in 1..Len(kept) |-> kept[Len(kept) + 1 - i]],
              edges |-> SelectSeq(es, LAMBDA e :
                            e.from \notin removeIds /\ e.to \notin removeIds)]
    ELSE [nodes |-> ns, edges |-> es]

\* the size step: drop the oldest non-preserved nodes in excess of maxNodes
SizeStep(ns, es) ==
    IF Len(ns) > gcConfig.maxNodes
    THEN LET removableNodes ==
                 SortByTimestamp(SelectSeq(ns, LAMBDA n :
                                     n.type \notin gcConfig.preserveTypes))
             excessCount == Len(ns) - gcConfig.maxNodes
             removeIds == IdsOf(Slice(removableNodes, excessCount))
         IN  [nodes |-> SelectSeq(ns, LAMBDA n : n.id \notin removeIds),
              edges |-> SelectSeq(es, LAMBDA e :
                            e.from \notin removeIds /\ e.to \notin removeIds)]
    ELSE [nodes |-> ns, edges |-> es]

\* activeAgents of calculateMetrics
ActiveAgents(ns) ==
    Cardinality({i \in 1..Len(ns) :
                    ns[i].type = "Agent" /\ Get(ns[i], "status") = "active"})

\* startGarbageCollection without the enabled test
StartGarbageCollectionAlways(config, handle) == TRUE

\* startGarbageCollection: the handle it leaves in this.gcInterval
StartGarbageCollection(config, handle) ==
    IF ~config.enabled THEN handle ELSE TRUE

\* runGarbageCollection without the threshold test
GcOutcomeNoGate(ns, es, t) ==
    LET aged == AgeStep(ns, es, t)
        trimmed == SizeStep(aged.nodes, aged.edges)
        afterNodes == Len(trimmed.nodes)
        afterEdges == Len(trimmed.edges)
    IN  Outcome(trimmed.nodes, trimmed.edges,
                IF Len(ns) # afterNodes \/ Len(es) # afterEdges
                THEN <<Message("gc:cleanup",
                               [beforeNodes |-> Len(ns),
                                afterNodes |-> afterNodes,
                                beforeEdges |-> Len(es),
                                afterEdges |-> afterEdges,
                                removedNodes |-> Len(ns) - afterNodes,
                                removedEdges |-> Len(es) - afterEdges], t)>>
                ELSE <<>>,
                FALSE)

\* runGarbageCollection broadcasting only when the node count changed
GcOutcomeNodeDelta(ns, es, t) ==
    IF Len(ns) < gcConfig.maxNodes /\ Len(es) < gcConfig.maxEdges
    THEN Outcome(ns, es, <<>>, FALSE)
    ELSE LET aged == AgeStep(ns, es, t)
             trimmed == SizeStep(aged.nodes, aged.edges)
             afterNodes == Len(trimmed.nodes)
             afterEdges == Len(trimmed.edges)
         IN  Outcome(trimmed.nodes, trimmed.edges,
                     IF Len(ns) # afterNodes
                     THEN <<Message("gc:cleanup",
                                    [beforeNodes |-> Len(ns),
                                     afterNodes |-> afterNodes,
                                     beforeEdges |-> Len(es),
                                     afterEdges |-> afterEdges,
                                     removedNodes |-> Len(ns) - afterNodes,
                                     removedEdges |-> Len(es) - afterEdges], t)>>
                     ELSE <<>>,
                     FALSE)

\* runGarbageCollection
GcOutcome(ns, es, t) ==
    IF Len(ns) < gcConfig.maxNodes /\ Len(es) < gcConfig.maxEdges
    THEN Outcome(ns, es, <<>>, FALSE)
    ELSE LET aged == AgeStep(ns, es, t)
             trimmed == SizeStep(aged.nodes, aged.edges)
             afterNodes == Len(trimmed.nodes)
             afterEdges == Len(trimmed.edges)
         IN  Outcome(trimmed.nodes, trimmed.edges,
                     IF Len(ns) # afterNodes \/ Len(es) # afterEdges
                     THEN <<Message("gc:cleanup",
                                    [beforeNodes |-> Len(ns),
                                     afterNodes |-> afterNodes,
                                     beforeEdges |-> Len(es),
                                     afterEdges |-> afterEdges,
                                     removedNodes |-> Len(ns) - afterNodes,
                                     removedEdges |-> Len(es) - afterEdges], t)>>
                     ELSE <<>>,
                     FALSE)

----------------------------------------------------------------------------
(* Metrics.  A quotient of two integers is kept as numerator and            *)
(* denominator.  Ids are taken not to name a member of Object.prototype,    *)
(* so that a missing key of the adjacency object reads as undefined.        *)

Rat(n, d) == [num |-> n, den |-> d]

RatEq(a, b) == a.num * b.den = b.num * a.den

\* countByType
CountByType(items) ==
    [ty \in {items[i].type : i \in 1..Len(items)} |->
        Cardinality({i \in 1..Len(items) : items[i].type = ty})]

\* calculateAvgDegree with the factor two left out
CalculateAvgDegreeOneEnd(ns, es) ==
    IF Len(ns) = 0 THEN Rat(0, 1) ELSE Rat(Len(es), Len(ns))

\* calculateAvgDegree
CalculateAvgDegree(ns, es) ==
    IF Len(ns) = 0 THEN Rat(0, 1) ELSE Rat(Len(es) * 2, Len(ns))

RECURSIVE NeighborsOf(_, _)
\* adj[id] after the loop of buildAdjacencyList: for each edge in order,
\* edge.to pushed to adj[edge.from], then edge.from pushed to adj[edge.to]
NeighborsOf(es, id) ==
    IF es = <<>> THEN <<>>
    ELSE (IF Head(es).from = id THEN <<Head(es).to>> ELSE <<>>)
         \o (IF Head(es).to = id THEN <<Head(es).from>> ELSE <<>>)
         \o NeighborsOf(Tail(es), id)

\* buildAdjacencyList: a key for every id an edge names
BuildAdjacencyList(es) ==
    [id \in {es[i].from : i \in 1..Len(es)} \cup {es[i].to : i \in 1..Len(es)}
        |-> NeighborsOf(es, id)]

\* adjacency[id] || []
Neighbors(adjacency, id) ==
    IF id \in DOMAIN adjacency THEN adjacency[id] ELSE <<>>

\* hasEdge
HasEdge(es, from, to) ==
    \E i \in 1..Len(es) :
        \/ es[i].from = from /\ es[i].to = to
        \/ es[i].from = to /\ es[i].to = from

\* the counter of findTriangles before the division by three
TriangleCount(ns, es) ==
    LET adjacency == BuildAdjacencyList(es)
        Hits(id) ==
            LET neighbors == Neighbors(adjacency, id)
            IN  Cardinality({p \in (1..Len(neighbors)) \X (1..Len(neighbors)) :
                                /\ p[1] < p[2]
                                /\ HasEdge(es, neighbors[p[1]], neighbors[p[2]])})
        RECURSIVE Sum(_)
        Sum(i) == IF i = 0 THEN 0 ELSE Hits(ns[i].id) + Sum(i - 1)
    IN  Sum(Len(ns))

\* findTriangles: count / 3
FindTriangles(ns, es) == Rat(TriangleCount(ns, es), 3)

\* n (n - 1) (n - 2) / 6, a whole number for every n
PossibleTriangles(ns) == (Len(ns) * (Len(ns) - 1) * (Len(ns) - 2)) \div 6

\* calculateClustering
CalculateClustering(ns, es) ==
    LET triangles == FindTriangles(ns, es)
        possibleTriangles == PossibleTriangles(ns)
    IN  IF possibleTriangles > 0
        THEN Rat(triangles.num, triangles.den * possibleTriangles)
        ELSE Rat(0, 1)

RECURSIVE Dfs(_, _, _)
\* dfs: the visited set once the stack is empty
Dfs(stack, adjacency, visited) ==
    IF stack = <<>> THEN visited
    ELSE LET current == stack[Len(stack)]
             rest == SubSeq(stack, 1, Len(stack) - 1)
         IN  IF current \in visited THEN Dfs(rest, adjacency, visited)
             ELSE Dfs(rest \o Neighbors(adjacency, current), adjacency,
                      visited \cup {current})

RECURSIVE ComponentsFrom(_, _, _)
\* the loop of findConnectedComponents over the nodes still to visit
ComponentsFrom(ns, adjacency, visited) ==
    IF ns = <<>> THEN 0
    ELSE IF Head(ns).id \in visited
         THEN ComponentsFrom(Tail(ns), adjacency, visited)
         ELSE 1 + ComponentsFrom(Tail(ns), adjacency,
                                 Dfs(<<Head(ns).id>>, adjacency, visited))

\* findConnectedComponents
FindConnectedComponents(ns, es) ==
    ComponentsFrom(ns, BuildAdjacencyList(es), {})

\* calculateAvgTaskDuration; n.duration is falsy when absent or zero
CalculateAvgTaskDuration(ns) ==
    LET completedTasks ==
            SelectSeq(ns, LAMBDA n :
                /\ n.type = "Task"
                /\ Get(n, "status") = "completed"
                /\ "duration" \in DOMAIN n
                /\ n.duration # 0)
        RECURSIVE Total(_)
        Total(i) == IF i = 0 THEN 0 ELSE completedTasks[i].duration + Total(i - 1)
    IN  IF Len(completedTasks) = 0 THEN Rat(0, 1)
        ELSE Rat(Total(Len(completedTasks)), Len(completedTasks))

TasksInStatus(ns, status) ==
    Cardinality({i \in 1..Len(ns) :
                    ns[i].type = "Task" /\ Get(ns[i], "status") = status})

\* the object calculateMetrics builds
Metrics(ns, es, t) ==
    [timestamp |-> t,
     graph |-> [totalNodes |-> Len(ns),
                totalEdges |-> Len(es),
                nodesByType |-> CountByType(ns),
                edgesByType |-> CountByType(es)],
     performance |-> [activeTasks |-> TasksInStatus(ns, "executing"),
                      completedTasks |-> TasksInStatus(ns, "completed"),
                      activeAgents |-> ActiveAgents(ns),
                      avgTaskDuration |-> CalculateAvgTaskDuration(ns)],
     connectivity |-> [avgDegree |-> CalculateAvgDegree(ns, es),
                       clustering |-> CalculateClustering(ns, es),
                       components |-> FindConnectedComponents(ns, es)]]

----------------------------------------------------------------------------
(* GlobalAgentsIntegration: the agents of the configuration directory *)

GlobalAgents == <<"x", "y">>

AgentConfig ==
    [x |-> [name |-> "PKM Coordinator", type |-> "coordinator"],
     y |-> [name |-> "PKM Researcher", type |-> "researcher"]]

GlobalId(agentId) == "global-" \o agentId

\* nodeData of setupVisualizationNodes (visual hints left out)
GlobalAgentData(agentId) ==
    [id |-> GlobalId(agentId),
     label |-> AgentConfig[agentId].name,
     type |-> "GlobalAgent",
     agentType |-> AgentConfig[agentId].type,
     status |-> "configured"]

HubData ==
    [id |-> "global-coordination-hub",
     label |-> "Global Agent Hub",
     type |-> "CoordinationHub"]

RECURSIVE AddGlobalAgentNodes(_, _, _)
AddGlobalAgentNodes(ns, agents, t) ==
    IF agents = <<>> THEN ns
    ELSE AddGlobalAgentNodes(
             PushNode(ns, NodeRecord("GlobalAgent", GlobalAgentData(Head(agents)), t)),
             Tail(agents), t)

RECURSIVE AddHubEdges(_, _, _)
AddHubEdges(es, agents, t) ==
    IF agents = <<>> THEN es
    ELSE AddHubEdges(
             PushEdge(es, EdgeRecord("COORDINATES_WITH", "global-coordination-hub",
                                     GlobalId(Head(agents)), <<>>, t)),
             Tail(agents), t)

CollabId(t) == "collab-" \o ToString(t)

\* the properties simulateCollaboration passes to addEdge
CollabProperties(t) ==
    [id |-> CollabId(t),
     type |-> "COLLABORATES",
     protocol |-> "real-time",
     timestamp |-> t]

----------------------------------------------------------------------------
(* Inputs: the payloads of the test suites and of the callers *)

TaskData ==
    [id |-> "t1", name |-> "Test Task", priority |-> "medium",
     status |-> "pending", progress |-> 0]

AgentData ==
    [id |-> "a1", name |-> "PKM-Architect", type |-> "coordinator",
     status |-> "active", swarmId |-> "s1"]

AddNodeInputs ==
    { <<"Task", TaskData>>,
      <<"Task", [id |-> "t1", status |-> "executing", duration |-> 300]>>,
      <<"Task", [name |-> "Test Task"]>>,
      <<"Task", [id |-> "", title |-> "Untitled"]>> }

AddEdgeInputs ==
    { <<"EXECUTES", "a1", "t1", [progress |-> 50]>>,
      <<"EXECUTES", "a1", "t1", [progress |-> 75]>>,
      <<"EXECUTES", "a1", "t1", <<>>>> }

UpdateNodeInputs ==
    { <<"t1", [status |-> "completed", progress |-> 100]>>,
      <<"non_existent_id", [status |-> "test"]>> }

Event(type, data) == JsObject([type |-> type, data |-> JsObject(data)])

\* one event of each kind that creates a node or an edge
CanonicalEvents ==
    { Event("swarm_init", [id |-> "s1", name |-> "Swarm", status |-> "active"]),
      Event("agent_spawn", AgentData),
      Event("task_orchestrate", [id |-> "t1", status |-> "pending"]),
      Event("task_assign", [taskId |-> "t1", agentId |-> "a1"]),
      Event("task_progress", [taskId |-> "t1", progress |-> 100,
                              status |-> "completed"]),
      Event("file_operation", [taskId |-> "t1", filePath |-> "notes.md",
                               operation |-> "write"]),
      Event("issue_update", [taskId |-> "t1", issueId |-> "i1",
                             title |-> "Issue"]),
      Event("agent_message", [from |-> "a1", to |-> "a2",
                              protocol |-> "task_coordination",
                              messages |-> 5]) }

WellFormedEvents ==
    CanonicalEvents \cup
    { Event("agent_spawn", [id |-> "a2", swarmId |-> "s1", status |-> "active"]),
      Event("task_progress", [taskId |-> "t1", progress |-> 50,
                              status |-> "executing"]),
      Event("task_progress", [taskId |-> "t2", progress |-> 50]) }

MalformedEvents ==
    { JsObject([type |-> "invalid_type", data |-> JsNull]),
      JsObject([type |-> "swarm_init"]),
      JsObject([data |-> JsObject([test |-> "value"])]),
      JsNull,
      JsUndefined,
      JsString("not_an_object") }

Events == WellFormedEvents \cup MalformedEvents

\* activeAgents and the two agents Math.random() picks among them
CollaborationDraws ==
    { <<{"x"}, "x", "x">>,
      <<{"x", "y"}, "x", "x">>,
      <<{"x", "y"}, "x", "y">>,
      <<{"x", "y"}, "y", "x">> }

----------------------------------------------------------------------------
(* The state machine *)

\* the state the constructor leaves, given the gcConfig it sets
Constructed(config) ==
    /\ nodes = <<>>
    /\ edges = <<>>
    /\ metrics = JsObject(NoMetrics)
    /\ clients = NoClients
    /\ now = 0
    /\ ret = JsUndefined
    /\ raised = FALSE
    /\ last = [op |-> "constructor", at |-> 0]
    /\ prev = [nodes |-> <<>>, edges |-> <<>>, clients |-> NoClients,
               metrics |-> JsObject(NoMetrics)]
    /\ sent = <<>>
    /\ timers = {}
    /\ isRunning = FALSE
    /\ pollClock = -1
    /\ gcConfig = config
    /\ gcInterval = StartGarbageCollection(config, FALSE)
    /\ gcTimers = IF gcInterval THEN 1 ELSE 0
    /\ progressRun = [base |-> 0, ids |-> {}, n |-> 0]
    /\ pc = [at |-> "idle"]
    /\ committed = [nodes |-> <<>>, edges |-> <<>>]
    /\ steps = 0

Init == Constructed(DefaultGcConfig)

\* a server constructed with any of the configurations
InitGc == \E config \in GcConfigs : Constructed(config)

\* op is the ingestion of a task_progress event that carries a payload
IsTaskProgress(op) ==
    /\ op.op = "ingest"
    /\ EventType(op.event) = "task_progress"
    /\ EventData(op.event).js = "object"

\* the effect of one callback on the graph and on the record of the call
Effects(op, out, result) ==
    /\ steps < MaxSteps
    /\ steps' = steps + 1
    /\ nodes' = out.nodes
    /\ edges' = out.edges
    /\ sent' = out.sent
    /\ raised' = out.raised
    /\ ret' = result
    /\ last' = Spread(op, [at |-> now])
    /\ prev' = [nodes |-> nodes, edges |-> edges, clients |-> clients,
                metrics |-> metrics]
    /\ progressRun' =
           IF IsTaskProgress(op)
           THEN [base |-> progressRun.base,
                 ids |-> progressRun.ids \cup {Get(op.event.v.data.v, "taskId")},
                 n |-> progressRun.n + 1]
           ELSE [base |-> Len(out.nodes), ids |-> {}, n |-> 0]
    /\ metrics' = IF op.op = "calculateMetrics" THEN result ELSE metrics
    /\ clients' = Broadcast(IF "clients" \in DOMAIN out THEN out.clients
                            ELSE clients,
                            out.sent)
    /\ UNCHANGED gcConfig

\* a callback that runs from its first statement to its return in one step
Call(op, out, result) ==
    /\ Effects(op, out, result)
    /\ committed' = IF pc.at = "idle"
                    THEN [nodes |-> out.nodes, edges |-> out.edges]
                    ELSE committed
    /\ UNCHANGED pc

Tick ==
    /\ now < MaxTime
    /\ now' = now + 1
    /\ UNCHANGED <<nodes, edges, metrics, clients, ret, raised, last, prev, sent,
                   timers,
                   isRunning, pollClock, gcConfig, gcInterval, gcTimers, progressRun,
                   pc, committed, steps>>

AddNodeCall(type, data) ==
    LET node == NodeRecord(type, data, now)
    IN  /\ Call([op |-> "addNode", type |-> type, data |-> data],
                Outcome(PushNode(nodes, node), edges, <<>>, FALSE),
                JsObject(node))
        /\ UNCHANGED <<now, timers, isRunning, pollClock, gcInterval,
                 gcTimers>>

AddEdgeCall(type, from, to, properties) ==
    LET edge == EdgeRecord(type, from, to, properties, now)
    IN  /\ Call([op |-> "addEdge", type |-> type, from |-> from, to |-> to,
                 properties |-> properties],
                Outcome(nodes, PushEdge(edges, edge), <<>>, FALSE),
                JsObject(edge))
        /\ UNCHANGED <<now, timers, isRunning, pollClock, gcInterval,
                 gcTimers>>

UpdateNodeCall(nodeId, updates) ==
    /\ Call([op |-> "updateNode", nodeId |-> nodeId, updates |-> updates],
            Outcome(PatchNodes(nodes, nodeId, updates, now), edges, <<>>, FALSE),
            UpdateNodeResult(nodes, nodeId, updates, now))
    /\ UNCHANGED <<now, timers, isRunning, pollClock, gcInterval,
                 gcTimers>>

Ingest(event) ==
    /\ Call([op |-> "ingest", event |-> event],
            IngestOutcome(event, nodes, edges, now),
            JsUndefined)
    /\ UNCHANGED <<now, timers, isRunning, pollClock, gcInterval,
                 gcTimers>>

\* GET /api/metrics: calculateMetrics, which keeps its result in graph.metrics
CalculateMetricsCall ==
    /\ Call([op |-> "calculateMetrics"],
            Outcome(nodes, edges, <<>>, FALSE),
            JsObject(Metrics(nodes, edges, now)))
    /\ UNCHANGED <<now, timers, isRunning, pollClock, gcInterval,
                 gcTimers>>

\* the 'connection' handler of setupWebSocket
Connection(w) ==
    /\ clients[w].readyState = "CONNECTING"
    /\ Call([op |-> "connection", ws |-> w],
            Spread(Outcome(nodes, edges, <<>>, FALSE),
                   [clients |->
                       [clients EXCEPT ![w] =
                           [readyState |-> "OPEN", member |-> TRUE,
                            inbox |-> <<InitialMessage(nodes, edges, metrics)>>,
                            skipped |-> FALSE]]]),
            JsUndefined)
    /\ UNCHANGED <<now, timers, isRunning, pollClock, gcInterval,
                 gcTimers>>

\* the peer or the network ends the connection: readyState leaves OPEN
\* before the socket emits 'close'
SocketCloses(w) ==
    /\ clients[w].readyState = "OPEN"
    /\ clients' = [clients EXCEPT ![w].readyState = "CLOSED"]
    /\ UNCHANGED <<nodes, edges, metrics, now, ret, raised, last, prev, sent,
                   timers, isRunning, pollClock, gcConfig, gcInterval, gcTimers,
                   progressRun, pc, committed, steps>>

\* the 'close' handler
OnClose(w) ==
    /\ clients[w].member
    /\ clients[w].readyState = "CLOSED"
    /\ Call([op |-> "close", ws |-> w],
            Spread(Outcome(nodes, edges, <<>>, FALSE),
                   [clients |-> [clients EXCEPT ![w].member = FALSE]]),
            JsUndefined)
    /\ UNCHANGED <<now, timers, isRunning, pollClock, gcInterval,
                 gcTimers>>

\* the 'error' handler; the socket is torn down with the error
OnError(w) ==
    /\ clients[w].member
    /\ Call([op |-> "error", ws |-> w],
            Spread(Outcome(nodes, edges, <<>>, FALSE),
                   [clients |-> [clients EXCEPT ![w].member = FALSE,
                                               ![w].readyState = "CLOSED"]]),
            JsUndefined)
    /\ UNCHANGED <<now, timers, isRunning, pollClock, gcInterval,
                 gcTimers>>

\* GET /api/health (uptime left out)
Health ==
    /\ Call([op |-> "health"],
            Outcome(nodes, edges, <<>>, FALSE),
            JsObject([status |-> "healthy",
                      clients |-> Cardinality({w \in Sockets : clients[w].member}),
                      nodes |-> Len(nodes),
                      edges |-> Len(edges)]))
    /\ UNCHANGED <<now, timers, isRunning, pollClock, gcInterval,
                 gcTimers>>

\* the setInterval callback of startGarbageCollection
GcTimerTick ==
    /\ gcTimers > 0
    /\ Call([op |-> "gcTimer"], GcOutcome(nodes, edges, now), JsUndefined)
    /\ UNCHANGED <<now, timers, isRunning, pollClock, gcInterval,
                 gcTimers>>

\* POST /api/gc/run
ManualGc ==
    LET out == GcOutcome(nodes, edges, now)
    IN  /\ Call([op |-> "gcRun"], out,
                JsObject([success |-> TRUE,
                          beforeNodes |-> Len(nodes),
                          afterNodes |-> Len(out.nodes),
                          beforeEdges |-> Len(edges),
                          afterEdges |-> Len(out.edges)]))
        /\ UNCHANGED <<now, timers, isRunning, pollClock, gcInterval,
                 gcTimers>>

\* startGarbageCollection(): setInterval, its handle stored over the old one
StartGcCall ==
    /\ Call([op |-> "startGarbageCollection"],
            Outcome(nodes, edges, <<>>, FALSE), JsUndefined)
    /\ gcInterval' = StartGarbageCollection(gcConfig, gcInterval)
    /\ gcTimers' = IF gcConfig.enabled THEN gcTimers + 1 ELSE gcTimers
    /\ UNCHANGED <<now, timers, isRunning, pollClock>>

\* stopGarbageCollection(): clearInterval of the stored handle, if any
StopGcCall ==
    /\ Call([op |-> "stopGarbageCollection"],
            Outcome(nodes, edges, <<>>, FALSE), JsUndefined)
    /\ gcInterval' = FALSE
    /\ gcTimers' = IF gcInterval THEN gcTimers - 1 ELSE gcTimers
    /\ UNCHANGED <<now, timers, isRunning, pollClock>>

\* GlobalAgentsIntegration.init: setupVisualizationNodes, then startMonitoring
SetupVisualizationNodes ==
    /\ ~isRunning
    /\ Call([op |-> "setupVisualizationNodes"],
            Outcome(PushNode(AddGlobalAgentNodes(nodes, GlobalAgents, now),
                             NodeRecord("CoordinationHub", HubData, now)),
                    AddHubEdges(edges, GlobalAgents, now),
                    <<>>, FALSE),
            JsUndefined)
    /\ isRunning' = TRUE
    /\ UNCHANGED <<now, timers, pollClock, gcInterval,
                 gcTimers>>

\* simulateCollaboration(activeAgents) with the two agents it draws
SimulateCollaboration(activeAgents, agent1, agent2) ==
    /\ isRunning
    /\ pollClock < now
    /\ pollClock' = now
    /\ IF Cardinality(activeAgents) >= 2 /\ agent1 # agent2
       THEN /\ Call([op |-> "simulateCollaboration", from |-> GlobalId(agent1),
                     to |-> GlobalId(agent2), fired |-> TRUE],
                    Outcome(nodes,
                            PushEdge(edges,
                                     EdgeRecord("COLLABORATES", GlobalId(agent1),
                                                GlobalId(agent2),
                                                CollabProperties(now), now)),
                            <<>>, FALSE),
                    JsUndefined)
            /\ timers' = timers \cup {[id |-> CollabId(now), at |-> now]}
       ELSE /\ Call([op |-> "simulateCollaboration", from |-> GlobalId(agent1),
                     to |-> GlobalId(agent2), fired |-> FALSE],
                    Outcome(nodes, edges, <<>>, FALSE), JsUndefined)
            /\ timers' = timers
    /\ UNCHANGED <<now, isRunning, gcInterval,
                 gcTimers>>

\* a setTimeout callback that announces the removal and leaves the edge
CollaborationExpiryKeepsEdge(timer) ==
    /\ timer.at < now
    /\ Call([op |-> "collaborationExpiry", id |-> timer.id],
            Outcome(nodes, edges,
                    <<Message("edge:removed", [id |-> timer.id], now)>>, FALSE),
            JsUndefined)
    /\ timers' = timers \ {timer}
    /\ UNCHANGED <<now, isRunning, pollClock, gcInterval, gcTimers>>

\* the setTimeout callback of simulateCollaboration
CollaborationExpiry(timer) ==
    /\ timer.at < now
    /\ Call([op |-> "collaborationExpiry", id |-> timer.id],
            Outcome(nodes, SelectSeq(edges, LAMBDA e : e.id # timer.id),
                    <<Message("edge:removed", [id |-> timer.id], now)>>, FALSE),
            JsUndefined)
    /\ timers' = timers \ {timer}
    /\ UNCHANGED <<now, isRunning, pollClock, gcInterval,
                 gcTimers>>

----------------------------------------------------------------------------
(* Callbacks statement by statement.  The agent:spawned listener and        *)
(* runGarbageCollection assign graph.nodes and graph.edges in separate      *)
(* statements.  Both are synchronous functions: the event loop starts no    *)
(* other callback before the running one returns.                           *)

\* an event loop that starts a callback while another one is suspended
RunsAnyTime == TRUE

\* the event loop is between callbacks, so that it may start one
RunToCompletion == pc.at = "idle"

\* one statement of the running callback, which goes on at next
Statement(ns, es, next) ==
    /\ nodes' = ns
    /\ edges' = es
    /\ pc' = next
    /\ UNCHANGED <<metrics, clients, now, ret, raised, last, prev, sent, timers,
                   isRunning, pollClock, gcConfig, gcInterval, gcTimers, progressRun,
                   committed, steps>>

\* the last statements of the running callback and its return
Return(op, msgs, result) ==
    /\ Effects(op, Outcome(nodes, edges, msgs, FALSE), result)
    /\ pc' = [at |-> "idle"]
    /\ committed' = [nodes |-> nodes, edges |-> edges]
    /\ UNCHANGED <<now, timers, isRunning, pollClock, gcInterval,
                 gcTimers>>

SpawnInputs == {AgentData, [id |-> "a2", swarmId |-> "s1"]}

\* agent:spawned listener: this.addNode('Agent', data)
SpawnAddNode(data) ==
    /\ steps < MaxSteps
    /\ Statement(PushNode(nodes, NodeRecord("Agent", data, now)), edges,
                 [at |-> "spawned:addEdge", data |-> data])

\* agent:spawned listener: this.addEdge('ORCHESTRATES', data.swarmId, data.id)
SpawnAddEdge ==
    /\ pc.at = "spawned:addEdge"
    /\ Statement(nodes,
                 PushEdge(edges,
                          EdgeRecord("ORCHESTRATES", Get(pc.data, "swarmId"),
                                     Get(pc.data, "id"), <<>>, now)),
                 [pc EXCEPT !.at = "spawned:broadcast"])

\* agent:spawned listener: this.broadcast('node:added', ...) and return
SpawnBroadcast ==
    /\ pc.at = "spawned:broadcast"
    /\ Return([op |-> "ingest", event |-> Event("agent_spawn", pc.data)],
              <<Message("node:added", [type |-> "Agent", data |-> pc.data], now)>>,
              JsUndefined)

\* the threshold test of runGarbageCollection lets the sweep return at once
SweepSkips ==
    Len(nodes) < gcConfig.maxNodes /\ Len(edges) < gcConfig.maxEdges

\* runGarbageCollection up to "Clean up nodes"; by is the callback that runs
\* it, the interval timer or POST /api/gc/run
SweepCleanNodes(by) ==
    /\ steps < MaxSteps
    /\ by = "gcTimer" => gcTimers > 0
    /\ ~SweepSkips
    /\ LET aged == AgeStep(nodes, edges, now)
       IN  Statement(aged.nodes, edges,
                     [at |-> "gc:cleanEdges", by |-> by,
                      beforeNodes |-> Len(nodes), beforeEdges |-> Len(edges),
                      edges |-> aged.edges])

\* runGarbageCollection: "Clean up edges"
SweepCleanEdges ==
    /\ pc.at = "gc:cleanEdges"
    /\ Statement(nodes, pc.edges, [pc EXCEPT !.at = "gc:overLimit"])

\* runGarbageCollection: over the limit, the nodes of the size step
SweepTrimNodes ==
    /\ pc.at = "gc:overLimit"
    /\ Len(nodes) > gcConfig.maxNodes
    /\ LET trimmed == SizeStep(nodes, edges)
       IN  Statement(trimmed.nodes, edges,
                     [pc EXCEPT !.at = "gc:trimEdges", !.edges = trimmed.edges])

\* runGarbageCollection: the edges of the size step
SweepTrimEdges ==
    /\ pc.at = "gc:trimEdges"
    /\ Statement(nodes, pc.edges, [pc EXCEPT !.at = "gc:report"])

\* runGarbageCollection: the gc:cleanup broadcast, and the return of the
\* callback that ran the sweep
SweepReturn ==
    /\ \/ pc.at = "gc:report"
       \/ pc.at = "gc:overLimit" /\ Len(nodes) <= gcConfig.maxNodes
    /\ Return([op |-> pc.by],
              IF pc.beforeNodes # Len(nodes) \/ pc.beforeEdges # Len(edges)
              THEN <<Message("gc:cleanup",
                             [beforeNodes |-> pc.beforeNodes,
                              afterNodes |-> Len(nodes),
                              beforeEdges |-> pc.beforeEdges,
                              afterEdges |-> Len(edges),
                              removedNodes |-> pc.beforeNodes - Len(nodes),
                              removedEdges |-> pc.beforeEdges - Len(edges)],
                             now)>>
              ELSE <<>>,
              IF pc.by = "gcRun"
              THEN JsObject([success |-> TRUE,
                             beforeNodes |-> pc.beforeNodes,
                             afterNodes |-> Len(nodes),
                             beforeEdges |-> pc.beforeEdges,
                             afterEdges |-> Len(edges)])
              ELSE JsUndefined)

\* the store's own operations and event ingestion, on the test suites' payloads
StoreNext ==
    \/ Tick
    \/ \E in \in AddNodeInputs : AddNodeCall(in[1], in[2])
    \/ \E in \in AddEdgeInputs : AddEdgeCall(in[1], in[2], in[3], in[4])
    \/ \E in \in UpdateNodeInputs : UpdateNodeCall(in[1], in[2])
    \/ \E event \in Events : Ingest(event)

SpecStore == Init /\ [][StoreNext]_vars

\* every operation that mutates the graph, timers included
Next ==
    \/ Tick
    \/ AddNodeCall("Task", TaskData)
    \/ AddNodeCall("Task", [name |-> "Test Task"])
    \/ AddEdgeCall("EXECUTES", "a1", "t1", <<>>)
    \/ UpdateNodeCall("t1", [status |-> "completed", progress |-> 100])
    \/ \E event \in CanonicalEvents \cup {JsNull} : Ingest(event)
    \/ GcTimerTick
    \/ ManualGc
    \/ SetupVisualizationNodes
    \/ \E draw \in CollaborationDraws :
           SimulateCollaboration(draw[1], draw[2], draw[3])
    \/ \E timer \in timers : CollaborationExpiry(timer)

Spec == Init /\ [][Next]_vars

\* ids of the agents the metrics are computed on
MetricsNodeIds == <<"a1", "a2", "a3">>

\* the addEdge calls the graphs of the metrics are built from: a ring, an
\* opposite edge, a second type on one pair, two edges at an id never stored
MetricsEdgeInputs ==
    << <<"COLLABORATES", "a1", "a2">>,
       <<"COLLABORATES", "a2", "a3">>,
       <<"COLLABORATES", "a3", "a1">>,
       <<"COLLABORATES", "a2", "a1">>,
       <<"DEPENDS_ON", "a1", "a2">>,
       <<"COLLABORATES", "a1", "x">>,
       <<"COLLABORATES", "x", "a2">> >>

RECURSIVE AddAgentNodes(_, _)
\* graph.nodes after addNode('Agent', { id }) for the first k ids
AddAgentNodes(k, t) ==
    IF k = 0 THEN <<>>
    ELSE PushNode(AddAgentNodes(k - 1, t),
                  NodeRecord("Agent", [id |-> MetricsNodeIds[k]], t))

\* the addNode('Task', data) calls the performance metrics are computed on
MetricsTaskInputs ==
    << [id |-> "t1", status |-> "completed", duration |-> 0],
       [id |-> "t2", status |-> "completed", duration |-> 300],
       [id |-> "t3", status |-> "executing", duration |-> 100],
       [id |-> "t4", status |-> "completed"] >>

RECURSIVE AddTasksOf(_, _, _, _)
\* ns after the addNode calls of chosen, in the order of the inputs
AddTasksOf(ns, chosen, i, t) ==
    IF i = 0 THEN ns
    ELSE IF i \in chosen
         THEN PushNode(AddTasksOf(ns, chosen, i - 1, t),
                       NodeRecord("Task", MetricsTaskInputs[i], t))
         ELSE AddTasksOf(ns, chosen, i - 1, t)

RECURSIVE AddEdgesOf(_, _, _)
\* graph.edges after the addEdge calls of chosen, in the order of the inputs
AddEdgesOf(chosen, i, t) ==
    IF i = 0 THEN <<>>
    ELSE IF i \in chosen
         THEN PushEdge(AddEdgesOf(chosen, i - 1, t),
                       EdgeRecord(MetricsEdgeInputs[i][1], MetricsEdgeInputs[i][2],
                                  MetricsEdgeInputs[i][3], <<>>, t))
         ELSE AddEdgesOf(chosen, i - 1, t)

\* a server whose store was built by addNode and addEdge calls at clock 0
InitMetrics ==
    /\ \E k \in 0..Len(MetricsNodeIds),
          chosen \in SUBSET (1..Len(MetricsTaskInputs)) :
           nodes = AddTasksOf(AddAgentNodes(k, 0), chosen,
                              Len(MetricsTaskInputs), 0)
    /\ \E chosen \in SUBSET (1..Len(MetricsEdgeInputs)) :
           edges = AddEdgesOf(chosen, Len(MetricsEdgeInputs), 0)
    /\ metrics = JsObject(NoMetrics)
    /\ clients = NoClients
    /\ now = 0
    /\ ret = JsUndefined
    /\ raised = FALSE
    /\ last = [op |-> "constructor", at |-> 0]
    /\ prev = [nodes |-> nodes, edges |-> edges, clients |-> NoClients,
               metrics |-> JsObject(NoMetrics)]
    /\ sent = <<>>
    /\ timers = {}
    /\ isRunning = FALSE
    /\ pollClock = -1
    /\ gcConfig = DefaultGcConfig
    /\ gcInterval = StartGarbageCollection(gcConfig, FALSE)
    /\ gcTimers = IF gcInterval THEN 1 ELSE 0
    /\ progressRun = [base |-> Len(nodes), ids |-> {}, n |-> 0]
    /\ pc = [at |-> "idle"]
    /\ committed = [nodes |-> nodes, edges |-> edges]
    /\ steps = 0

\* metrics queries on such a store
MetricsNext ==
    \/ Tick
    \/ CalculateMetricsCall

SpecMetrics == InitMetrics /\ [][MetricsNext]_vars

\* ids of the nodes the sweeps are exercised on
GcNodeIds == {"t1", "t2", "t3"}

\* graph growth and sweeps, under every configuration
GcNext ==
    \/ Tick
    \/ \E id \in GcNodeIds : AddNodeCall("Task", [id |-> id])
    \/ AddEdgeCall("DEPENDS_ON", "t1", "t2", <<>>)
    \/ Ingest(Event("agent_spawn", AgentData))
    \/ Ingest(Event("task_assign", [taskId |-> "t1", agentId |-> "a1"]))
    \/ SetupVisualizationNodes
    \/ GcTimerTick
    \/ ManualGc

SpecGc == InitGc /\ [][GcNext]_vars

\* servers whose sweep removes by age, or by count, or does neither
StepsConfigs ==
    {DefaultGcConfig,
     [DefaultGcConfig EXCEPT !.maxNodes = 1, !.preserveTypes = {}],
     [DefaultGcConfig EXCEPT !.maxNodes = 1, !.preserveTypes = {},
                             !.maxAge = NeverOld]}

InitSteps == \E config \in StepsConfigs : Constructed(config)

\* the callbacks the event loop runs, the agent:spawned listener and the
\* sweep one statement at a time
StepsNext ==
    \/ Tick
    \/ RunToCompletion /\ \E data \in SpawnInputs : SpawnAddNode(data)
    \/ SpawnAddEdge
    \/ SpawnBroadcast
    \/ RunToCompletion /\ \E by \in {"gcTimer", "gcRun"} : SweepCleanNodes(by)
    \/ SweepCleanEdges
    \/ SweepTrimNodes
    \/ SweepTrimEdges
    \/ SweepReturn
    \/ RunToCompletion /\ SweepSkips /\ GcTimerTick
    \/ RunToCompletion /\ SweepSkips /\ ManualGc
    \/ RunToCompletion /\ \E w \in Sockets : Connection(w)
    \/ RunToCompletion /\ CalculateMetricsCall
    \/ RunToCompletion /\ SetupVisualizationNodes
    \/ RunToCompletion /\ \E draw \in CollaborationDraws :
                              SimulateCollaboration(draw[1], draw[2], draw[3])
    \/ RunToCompletion /\ \E timer \in timers : CollaborationExpiry(timer)

SpecSteps == InitSteps /\ [][StepsNext]_vars

\* room is left, within MaxSteps and MaxTime, for every pending timer and
\* for k more to fire
TimersCanFire(k) ==
    /\ steps + Cardinality(timers) + k < MaxSteps
    /\ k > 0 => now < MaxTime

\* the calls of Next, made while the pending timers can still fire
ExpiryNext ==
    \/ Tick
    \/ TimersCanFire(0) /\ AddNodeCall("Task", TaskData)
    \/ TimersCanFire(0) /\ AddEdgeCall("EXECUTES", "a1", "t1", <<>>)
    \/ TimersCanFire(0)
           /\ UpdateNodeCall("t1", [status |-> "completed", progress |-> 100])
    \/ TimersCanFire(0) /\ \E event \in CanonicalEvents : Ingest(event)
    \/ TimersCanFire(0) /\ GcTimerTick
    \/ TimersCanFire(0) /\ ManualGc
    \/ TimersCanFire(0) /\ SetupVisualizationNodes
    \/ TimersCanFire(1) /\ \E draw \in CollaborationDraws :
                               SimulateCollaboration(draw[1], draw[2], draw[3])
    \/ \E timer \in timers : CollaborationExpiry(timer)

\* time passes and a setTimeout callback that is due is run
SpecExpiry ==
    /\ Init
    /\ [][ExpiryNext]_vars
    /\ WF_vars(Tick)
    /\ WF_vars(\E timer \in timers : CollaborationExpiry(timer))

\* starting and stopping the sweep timer of a server of any configuration
GcTimerNext ==
    \/ Tick
    \/ \E id \in GcNodeIds : AddNodeCall("Task", [id |-> id])
    \/ StartGcCall
    \/ StopGcCall
    \/ GcTimerTick
    \/ ManualGc

SpecGcTimer == InitGc /\ [][GcTimerNext]_vars

\* the patches the callers of updateNode make
PatchInputs ==
    {[status |-> "completed", progress |-> 100],
     [borderColor |-> "#00ff00"]}

\* nodes that are upserted, patched and swept, on a server of any
\* configuration
PatchNext ==
    \/ Tick
    \/ \E id \in {"t1", "t2"} : AddNodeCall("Task", [id |-> id])
    \/ \E updates \in PatchInputs : UpdateNodeCall("t1", updates)
    \/ Ingest(Event("task_progress", [taskId |-> "t1", progress |-> 50]))
    \/ GcTimerTick
    \/ ManualGc

SpecPatch == InitGc /\ [][PatchNext]_vars

\* a server whose thresholds are the default ones or let one node through
InitSubs ==
    \E config \in {DefaultGcConfig, [DefaultGcConfig EXCEPT !.maxNodes = 1]} :
        Constructed(config)

\* sockets connecting and closing while events, sweeps and queries run
SubsNext ==
    \/ Tick
    \/ \E w \in Sockets : Connection(w)
    \/ \E w \in Sockets : SocketCloses(w)
    \/ \E w \in Sockets : OnClose(w)
    \/ \E w \in Sockets : OnError(w)
    \/ Health
    \/ Ingest(Event("agent_spawn", AgentData))
    \/ Ingest(Event("task_progress", [taskId |-> "a1", progress |-> 50]))
    \/ GcTimerTick
    \/ ManualGc

SpecSubs == InitSubs /\ [][SubsNext]_vars

----------------------------------------------------------------------------
(* Properties *)

Stored(seq, id) == \E i \in 1..Len(seq) : seq[i].id = id

CountId(seq, id) == Cardinality({i \in 1..Len(seq) : seq[i].id = id})

NodeAt(ns, id) == ns[FindNode(ns, id)]

\* the fields addNode and addEdge set themselves
NodeOwnFields == {"id", "type", "label", "timestamp"}
EdgeOwnFields == {"id", "type", "from", "to", "timestamp"}

\* the last call invoked addEdge (directly, or from simulateCollaboration)
MadeEdgeCall ==
    \/ last.op = "addEdge"
    \/ last.op = "simulateCollaboration" /\ last.fired

\* the arguments of that addEdge call
EdgeCallProperties ==
    IF last.op = "addEdge" THEN last.properties ELSE CollabProperties(last.at)

EdgeCallType == IF last.op = "addEdge" THEN last.type ELSE "COLLABORATES"

SameTriple(e, type, from, to) == e.type = type /\ e.from = from /\ e.to = to

CanonicalType ==
    [swarm_init |-> "Swarm", agent_spawn |-> "Agent", task_orchestrate |-> "Task",
     file_operation |-> "File", issue_update |-> "Issue"]

\* the last call ingested a node-creating event that carries a payload
IngestedNodeEvent ==
    /\ last.op = "ingest"
    /\ EventType(last.event) \in DOMAIN CanonicalType
    /\ EventData(last.event).js = "object"

(* C1: after every addNode(type, data) call the returned record's id is    *)
(* data.id when data has one and the generated id <type>_<clock>           *)
(* otherwise, and the store holds exactly one node with that id.           *)
C1_AddNodeReturnsStoredId ==
    last.op = "addNode" =>
        /\ ret.js = "object"
        /\ ret.v.id = IF "id" \in DOMAIN last.data THEN last.data.id
                      ELSE GeneratedId(last.type, last.at)
        /\ CountId(nodes, ret.v.id) = 1

\* an addNode without id whose generated id was already stored
C1_Witness ==
    /\ last.op = "addNode"
    /\ "id" \notin DOMAIN last.data
    /\ Stored(prev.nodes, ret.v.id)
    /\ Len(nodes) >= 2

(* C2: an addNode on an id already stored does not increase the node count *)
(* and the stored record has exactly the fields addNode sets plus those of *)
(* the latest data, each with the latest value: nothing of the earlier     *)
(* record survives.                                                        *)
C2_ReupsertReplacesRecord ==
    (last.op = "addNode" /\ Stored(prev.nodes, ret.v.id)) =>
        /\ Len(nodes) <= Len(prev.nodes)
        /\ LET n == NodeAt(nodes, ret.v.id)
           IN  /\ DOMAIN n = NodeOwnFields \cup DOMAIN last.data
               /\ \A k \in DOMAIN last.data \ {"timestamp"} : n[k] = last.data[k]
               /\ n.timestamp = last.at

\* a re-upsert whose earlier record had a field the latest data lacks
C2_Witness ==
    /\ last.op = "addNode"
    /\ Stored(prev.nodes, ret.v.id)
    /\ DOMAIN NodeAt(prev.nodes, ret.v.id) \ DOMAIN NodeAt(nodes, ret.v.id) # {}

(* C3: an addEdge call whose (from, type, to) is already stored does not   *)
(* increase the edge count, and every stored edge of that triple carries   *)
(* only the properties of the latest call.                                 *)
C3_ReaddedEdgeReplaces ==
    (/\ MadeEdgeCall
     /\ \E i \in 1..Len(prev.edges) :
            SameTriple(prev.edges[i], EdgeCallType, last.from, last.to)) =>
        /\ Len(edges) <= Len(prev.edges)
        /\ \A i \in 1..Len(edges) :
               SameTriple(edges[i], EdgeCallType, last.from, last.to) =>
                   /\ DOMAIN edges[i] = EdgeOwnFields \cup DOMAIN EdgeCallProperties
                   /\ \A k \in DOMAIN EdgeCallProperties \ {"timestamp"} :
                          edges[i][k] = EdgeCallProperties[k]

(* C4: in every reachable state no two stored nodes have the same id and   *)
(* no two stored edges have the same id.                                   *)
C4_UniqueIds ==
    /\ \A i, j \in 1..Len(nodes) : nodes[i].id = nodes[j].id => i = j
    /\ \A i, j \in 1..Len(edges) : edges[i].id = edges[j].id => i = j

\* a sweep has just removed a node and left several nodes and edges
C4_Witness ==
    /\ last.op \in {"gcTimer", "gcRun"}
    /\ Len(nodes) < Len(prev.nodes)
    /\ Len(nodes) >= 2
    /\ Len(edges) >= 2

(* C5: the store holds at most one edge per (from, type, to) triple, the   *)
(* collaboration edges of successive polls included.                       *)
C5_OneEdgePerTriple ==
    \A i, j \in 1..Len(edges) :
        SameTriple(edges[i], edges[j].type, edges[j].from, edges[j].to) => i = j

(* C6: updateNode on an id that is not stored returns null and changes no  *)
(* node and no edge; on a stored id it merges the updates into the record, *)
(* sets its update timestamp, keeps every other field and leaves the node  *)
(* count unchanged.                                                        *)
C6_UpdateNodeContract ==
    last.op = "updateNode" =>
        IF ~Stored(prev.nodes, last.nodeId)
        THEN /\ ret = JsNull
             /\ nodes = prev.nodes
             /\ edges = prev.edges
        ELSE LET i == FindNode(prev.nodes, last.nodeId)
             IN  /\ ret.js = "object"
                 /\ Len(nodes) = Len(prev.nodes)
                 /\ edges = prev.edges
                 /\ \A k \in DOMAIN last.updates : nodes[i][k] = last.updates[k]
                 /\ nodes[i].updated = last.at
                 /\ \A k \in DOMAIN prev.nodes[i] \ (DOMAIN last.updates \cup {"updated"}) :
                        nodes[i][k] = prev.nodes[i][k]

(* C7: ingestClaudeFlowEvent never raises and leaves nodes and edges       *)
(* unchanged on null, undefined, a non-object, a recognized type without   *)
(* data, data without type, or an unrecognized type.                       *)
C7_MalformedIngestIsNoOp ==
    (last.op = "ingest" /\ last.event \in MalformedEvents) =>
        /\ ~raised
        /\ nodes = prev.nodes
        /\ edges = prev.edges

(* C8: the node stored by a node-creating event has the canonical type of  *)
(* the mapping table whatever the payload carries, so each spawn of a new  *)
(* agent with status active raises the activeAgents metric by one.         *)
C8_IngestedNodeHasCanonicalType ==
    IngestedNodeEvent =>
        /\ nodes[Len(nodes)].type = CanonicalType[EventType(last.event)]
        /\ (/\ EventType(last.event) = "agent_spawn"
            /\ Get(EventData(last.event).v, "status") = "active"
            /\ ~Stored(prev.nodes, Get(EventData(last.event).v, "id")))
           => ActiveAgents(nodes) = ActiveAgents(prev.nodes) + 1

(* C9: after a task_progress event whose taskId names a stored node, the   *)
(* node's progress and status are those of the event.                      *)
C9_ProgressEventSetsStatus ==
    (/\ IsTaskProgress(last)
     /\ "status" \in DOMAIN EventData(last.event).v
     /\ Stored(prev.nodes, Get(EventData(last.event).v, "taskId"))) =>
        LET d == EventData(last.event).v
            n == NodeAt(nodes, d.taskId)
        IN  /\ n.progress = d.progress
            /\ n.status = d.status

(* C10: during a run of task_progress events the node count never exceeds *)
(* the count before the run plus the number of distinct task ids the run   *)
(* has referenced.                                                         *)
C10_ProgressRunBounded ==
    Len(nodes) <= progressRun.base + Cardinality(progressRun.ids)

\* a run on a non-empty store that repeats a task id
C10_Witness ==
    /\ progressRun.n >= 2
    /\ Cardinality(progressRun.ids) < progressRun.n
    /\ progressRun.base >= 1
    /\ \E i \in 1..Len(nodes) : "progress" \in DOMAIN nodes[i] /\ "updated" \in DOMAIN nodes[i]

\* the last call ingested an edge-only event that carries a payload
IngestedEdgeEvent ==
    /\ last.op = "ingest"
    /\ EventType(last.event) \in {"task_assign", "agent_message"}
    /\ EventData(last.event).js = "object"

\* the (type, from, to) an edge-only event names
EdgeEventTriple ==
    LET d == EventData(last.event).v
    IN  IF EventType(last.event) = "task_assign"
        THEN [type |-> "EXECUTES", from |-> Get(d, "agentId"),
              to |-> Get(d, "taskId")]
        ELSE [type |-> "COLLABORATES", from |-> Get(d, "from"),
              to |-> Get(d, "to")]

OfEventTriple(e) ==
    SameTriple(e, EdgeEventTriple.type, EdgeEventTriple.from, EdgeEventTriple.to)

(* C11: after a task_assign event the store holds exactly one edge          *)
(* (agentId, EXECUTES, taskId), after an agent_message event exactly one    *)
(* edge (from, COLLABORATES, to) with the event's protocol and messages;    *)
(* every other edge is as it was and the nodes are unchanged.               *)
C11_EdgeEventsUpsertOneEdge ==
    IngestedEdgeEvent =>
        /\ ~raised
        /\ nodes = prev.nodes
        /\ Cardinality({i \in 1..Len(edges) : OfEventTriple(edges[i])}) = 1
        /\ OfEventTriple(edges[Len(edges)])
        /\ SelectSeq(edges, LAMBDA e : ~OfEventTriple(e))
               = SelectSeq(prev.edges, LAMBDA e : ~OfEventTriple(e))
        /\ EventType(last.event) = "agent_message" =>
               LET d == EventData(last.event).v
                   e == edges[Len(edges)]
               IN  /\ Get(e, "protocol") = Get(d, "protocol")
                   /\ Get(e, "messages") = Get(d, "messages")

\* an agent_message re-upserts its edge next to a task_assign edge and a node
C11_Witness ==
    /\ IngestedEdgeEvent
    /\ EventType(last.event) = "agent_message"
    /\ \E i \in 1..Len(prev.edges) : OfEventTriple(prev.edges[i])
    /\ Len(edges) >= 2
    /\ Len(edges) = Len(prev.edges)

\* the last call was a sweep, from the timer or from POST /api/gc/run
Swept == last.op \in {"gcTimer", "gcRun"}

\* the sweep started under both thresholds
UnderThresholds ==
    /\ Len(prev.nodes) < gcConfig.maxNodes
    /\ Len(prev.edges) < gcConfig.maxEdges

\* cutoffTime of the last sweep
Cutoff == last.at - gcConfig.maxAge

Pinned(n) == n.type \in gcConfig.preserveTypes

\* ids of the nodes the last call removed
RemovedIds == IdsOf(prev.nodes) \ IdsOf(nodes)

(* C12: a sweep that starts with fewer than maxNodes nodes and fewer than  *)
(* maxEdges edges leaves nodes and edges as they were and broadcasts        *)
(* nothing, whatever the ages of the records.                               *)
C12_SweepUnderThresholdsIsNoOp ==
    (Swept /\ UnderThresholds) =>
        /\ nodes = prev.nodes
        /\ edges = prev.edges
        /\ sent = <<>>

\* a sweep under the thresholds over a node and an edge older than the cutoff
C12_Witness ==
    /\ Swept
    /\ UnderThresholds
    /\ \E i \in 1..Len(prev.nodes) :
           prev.nodes[i].timestamp < Cutoff /\ ~Pinned(prev.nodes[i])
    /\ \E i \in 1..Len(prev.edges) : prev.edges[i].timestamp < Cutoff

(* C13: every node of a pinned type stored before a sweep is stored,        *)
(* unchanged, after it.                                                     *)
C13_SweepKeepsPinnedNodes ==
    Swept =>
        \A i \in 1..Len(prev.nodes) :
            Pinned(prev.nodes[i]) =>
                \E j \in 1..Len(nodes) : nodes[j] = prev.nodes[i]

\* a sweep that removed a node and kept pinned nodes older than the cutoff,
\* more of them than maxNodes
C13_Witness ==
    /\ Swept
    /\ RemovedIds # {}
    /\ Cardinality({i \in 1..Len(nodes) :
                       Pinned(nodes[i]) /\ nodes[i].timestamp < Cutoff})
           > gcConfig.maxNodes

(* C14: after a sweep that did not start under both thresholds no stored    *)
(* node of a non-pinned type and no stored edge has a timestamp older than  *)
(* now - maxAge.                                                            *)
C14_GatePassingSweepLeavesNothingOld ==
    (Swept /\ ~UnderThresholds) =>
        /\ \A i \in 1..Len(nodes) :
               Pinned(nodes[i]) \/ ~(nodes[i].timestamp < Cutoff)
        /\ \A i \in 1..Len(edges) : ~(edges[i].timestamp < Cutoff)

\* a sweep that removed an old node, and an old edge between nodes it kept
C14_Witness ==
    /\ Swept
    /\ ~UnderThresholds
    /\ \E i \in 1..Len(prev.nodes) :
           prev.nodes[i].timestamp < Cutoff /\ ~Pinned(prev.nodes[i])
    /\ \E i \in 1..Len(prev.edges) :
           /\ prev.edges[i].timestamp < Cutoff
           /\ prev.edges[i].from \in IdsOf(nodes)
           /\ prev.edges[i].to \in IdsOf(nodes)

(* C15: after a sweep no stored edge starts or ends at a node the sweep     *)
(* removed.                                                                 *)
C15_NoEdgeOfRemovedNode ==
    Swept =>
        \A i \in 1..Len(edges) :
            edges[i].from \notin RemovedIds /\ edges[i].to \notin RemovedIds

\* the size step removed a node that was not old, with an edge that was not
\* old either
C15_Witness ==
    /\ Swept
    /\ \E i \in 1..Len(prev.nodes), j \in 1..Len(prev.edges) :
           /\ prev.nodes[i].id \in RemovedIds
           /\ ~(prev.nodes[i].timestamp < Cutoff)
           /\ ~(prev.edges[j].timestamp < Cutoff)
           /\ prev.nodes[i].id \in {prev.edges[j].from, prev.edges[j].to}

\* the store before the last call: no pinned node, no node older than the
\* cutoff, more than maxNodes nodes, pairwise distinct timestamps
TrimOnlyCase ==
    /\ Swept
    /\ Len(prev.nodes) > gcConfig.maxNodes
    /\ \A i \in 1..Len(prev.nodes) :
           /\ ~Pinned(prev.nodes[i])
           /\ ~(prev.nodes[i].timestamp < Cutoff)
    /\ \A i, j \in 1..Len(prev.nodes) :
           i # j => prev.nodes[i].timestamp # prev.nodes[j].timestamp

(* C16: a sweep over N > maxNodes nodes, none pinned, none older than the   *)
(* cutoff, all of distinct timestamps, removes exactly N - maxNodes nodes,  *)
(* each older than every node it keeps, and every edge that touched one of  *)
(* them.                                                                    *)
C16_TrimRemovesOldestExcess ==
    TrimOnlyCase =>
        /\ Len(nodes) = gcConfig.maxNodes
        /\ Cardinality(RemovedIds) = Len(prev.nodes) - gcConfig.maxNodes
        /\ \A i \in 1..Len(nodes) :
               \E j \in 1..Len(prev.nodes) : prev.nodes[j] = nodes[i]
        /\ \A i \in 1..Len(prev.nodes), j \in 1..Len(nodes) :
               prev.nodes[i].id \in RemovedIds =>
                   prev.nodes[i].timestamp < nodes[j].timestamp
        /\ \A i \in 1..Len(prev.edges) :
               (prev.edges[i].from \in RemovedIds \/ prev.edges[i].to \in RemovedIds)
                   => ~Stored(edges, prev.edges[i].id)

\* the trimmed node had an edge, and the types of the default list are pinned
C16_Witness ==
    /\ TrimOnlyCase
    /\ gcConfig.preserveTypes # {}
    /\ \E i \in 1..Len(prev.edges) :
           prev.edges[i].from \in RemovedIds \/ prev.edges[i].to \in RemovedIds
    /\ Len(nodes) >= 1

\* the gc:cleanup messages of the last call
Cleanups == SelectSeq(sent, LAMBDA m : m.type = "gc:cleanup")

(* C17: a sweep broadcasts at most one gc:cleanup message, and one exactly  *)
(* when the node count or the edge count after the sweep differs from the   *)
(* count before; its before and after counts are the counts of the store    *)
(* when the sweep started and when it ended.                                *)
C17_CleanupDeltaIffCountsChanged ==
    Swept =>
        /\ Len(Cleanups) <= 1
        /\ Len(Cleanups) = 1 <=>
               (Len(nodes) # Len(prev.nodes) \/ Len(edges) # Len(prev.edges))
        /\ \A i \in 1..Len(Cleanups) :
               /\ Cleanups[i].data.beforeNodes = Len(prev.nodes)
               /\ Cleanups[i].data.afterNodes = Len(nodes)
               /\ Cleanups[i].data.beforeEdges = Len(prev.edges)
               /\ Cleanups[i].data.afterEdges = Len(edges)

\* a sweep that removed edges and no node
C17_Witness ==
    /\ Swept
    /\ Len(Cleanups) = 1
    /\ Len(nodes) = Len(prev.nodes)
    /\ Len(nodes) >= 1
    /\ Len(edges) < Len(prev.edges)

(* C18: after every sweep the node count is at most maxNodes and the edge   *)
(* count at most maxEdges.                                                  *)
C18_SweepBoundsStore ==
    Swept =>
        /\ Len(nodes) <= gcConfig.maxNodes
        /\ Len(edges) <= gcConfig.maxEdges

Measured == last.op = "calculateMetrics" /\ ret.js = "object"

(* C20: calculateMetrics reports avgDegree 0 and components 0 on a store    *)
(* without nodes, clustering 0 on every store with fewer than three nodes   *)
(* whatever its edges, and avgDegree 2 |E| / |V| on every store with a      *)
(* node.                                                                    *)
C20_MetricsEdgeCases ==
    Measured =>
        LET c == ret.v.connectivity
        IN  /\ Len(nodes) = 0 =>
                   c.avgDegree.num = 0 /\ c.components = 0
            /\ Len(nodes) < 3 => c.clustering.num = 0
            /\ Len(nodes) > 0 =>
                   RatEq(c.avgDegree, Rat(2 * Len(edges), Len(nodes)))

\* fewer than three nodes whose edges, some of them dangling, close a
\* triangle that findTriangles counts
C20_Witness ==
    /\ Measured
    /\ Len(nodes) \in {1, 2}
    /\ TriangleCount(nodes, edges) > 0
    /\ \E i \in 1..Len(edges) : edges[i].to \notin IdsOf(nodes)

\* two stored nodes joined by a stored edge, in either direction
Joined(a, b) ==
    /\ a \in IdsOf(nodes)
    /\ b \in IdsOf(nodes)
    /\ \E i \in 1..Len(edges) :
           \/ edges[i].from = a /\ edges[i].to = b
           \/ edges[i].from = b /\ edges[i].to = a

RECURSIVE ConnectedTo(_)
\* the stored nodes reachable from the set S along such edges
ConnectedTo(S) ==
    LET more == S \cup {b \in IdsOf(nodes) : \E a \in S : Joined(a, b)}
    IN  IF more = S THEN S ELSE ConnectedTo(more)

\* number of connected components of the graph of the stored nodes
GraphComponents == Cardinality({ConnectedTo({a}) : a \in IdsOf(nodes)})

\* number of unordered triples of distinct stored nodes, pairwise joined
GraphTriangles ==
    Cardinality({t \in SUBSET IdsOf(nodes) :
                    /\ Cardinality(t) = 3
                    /\ \A a, b \in t : a # b => Joined(a, b)})

(* C21: the components calculateMetrics reports are the connected           *)
(* components of the undirected graph of the stored nodes and the stored    *)
(* edges between them.                                                      *)
C21_ComponentsOfStoredGraph ==
    Measured => ret.v.connectivity.components = GraphComponents

(* C22: findTriangles is the number of triples of distinct stored nodes     *)
(* that are pairwise joined, and the clustering reported is that number     *)
(* over n (n - 1) (n - 2) / 6, between 0 and 1.                             *)
C22_TrianglesOfStoredGraph ==
    Measured =>
        LET c == ret.v.connectivity.clustering
        IN  /\ RatEq(FindTriangles(nodes, edges), Rat(GraphTriangles, 1))
            /\ PossibleTriangles(nodes) > 0 =>
                   RatEq(c, Rat(GraphTriangles, PossibleTriangles(nodes)))
            /\ 0 <= c.num
            /\ c.num <= c.den

\* the stored Task nodes with status completed that carry a duration
TimedCompletedTasks ==
    SelectSeq(nodes, LAMBDA n :
        /\ n.type = "Task"
        /\ Get(n, "status") = "completed"
        /\ "duration" \in DOMAIN n)

RECURSIVE DurationSum(_)
DurationSum(tasks) ==
    IF tasks = <<>> THEN 0 ELSE Head(tasks).duration + DurationSum(Tail(tasks))

(* C23: avgTaskDuration is the sum of the durations over the number of the  *)
(* completed Task nodes that carry a duration, a duration of 0 included,    *)
(* and 0 when there is none.                                                *)
C23_AvgDurationOverCompletedTasks ==
    Measured =>
        LET avg == ret.v.performance.avgTaskDuration
        IN  IF TimedCompletedTasks = <<>> THEN avg.num = 0
            ELSE RatEq(avg, Rat(DurationSum(TimedCompletedTasks),
                                Len(TimedCompletedTasks)))

\* the last call ingested a file_operation or issue_update event with a payload
IngestedAttachmentEvent ==
    /\ last.op = "ingest"
    /\ EventType(last.event) \in {"file_operation", "issue_update"}
    /\ EventData(last.event).js = "object"

(* C29: after a file_operation or issue_update event the MODIFIES or        *)
(* IMPLEMENTS edge of the event starts at the event's task and ends at the  *)
(* id of the File or Issue node the event upserted.                         *)
C29_AttachmentEdgeEndsAtItsNode ==
    IngestedAttachmentEvent =>
        LET d == EventData(last.event).v
            isFile == EventType(last.event) = "file_operation"
            node == nodes[Len(nodes)]
            edge == edges[Len(edges)]
        IN  /\ node.type = IF isFile THEN "File" ELSE "Issue"
            /\ edge.type = IF isFile THEN "MODIFIES" ELSE "IMPLEMENTS"
            /\ edge.from = Get(d, "taskId")
            /\ edge.to = node.id

(* C30: when a sweep removes a node and keeps a non-pinned one, the kept    *)
(* node is not older than the removed one, and if their timestamps are      *)
(* equal the removed node was inserted before the kept one.                 *)
C30_TrimOldestThenEarliest ==
    Swept =>
        \A i, j \in 1..Len(prev.nodes) :
            (/\ prev.nodes[i].id \in RemovedIds
             /\ prev.nodes[j].id \notin RemovedIds
             /\ ~Pinned(prev.nodes[j])) =>
                /\ ~(prev.nodes[j].timestamp < prev.nodes[i].timestamp)
                /\ prev.nodes[j].timestamp = prev.nodes[i].timestamp => i < j

\* the size step removed one of two nodes of equal timestamp
C30_Witness ==
    /\ Swept
    /\ \E i, j \in 1..Len(prev.nodes) :
           /\ prev.nodes[i].id \in RemovedIds
           /\ prev.nodes[j].id \notin RemovedIds
           /\ ~Pinned(prev.nodes[j])
           /\ prev.nodes[j].timestamp = prev.nodes[i].timestamp
           /\ ~(prev.nodes[i].timestamp < Cutoff)

\* the ids of a sequence of records, in order
IdSeq(seq) == [i \in 1..Len(seq) |-> seq[i].id]

Connected(w) == clients[w].readyState # "CONNECTING"

(* C24: every socket that has connected was sent exactly one 'initial'      *)
(* message, as its first message, and when the connection handler returns   *)
(* that message lists the nodes and the edges of the store.                 *)
C24_InitialSnapshotFirst ==
    \A w \in Sockets :
        Connected(w) =>
            LET inbox == clients[w].inbox
            IN  /\ Len(inbox) >= 1
                /\ inbox[1].type = "initial"
                /\ \A i \in 2..Len(inbox) : inbox[i].type # "initial"
                /\ (last.op = "connection" /\ last.ws = w) =>
                       /\ Len(inbox) = 1
                       /\ IdSeq(inbox[1].data.nodes) = IdSeq(nodes)
                       /\ IdSeq(inbox[1].data.edges) = IdSeq(edges)

\* a socket connects to a store with a node and an edge after another
\* socket was connected, received a delta and closed
C24_Witness ==
    /\ last.op = "connection"
    /\ Len(nodes) >= 1
    /\ Len(edges) >= 1
    /\ \E w \in Sockets :
           /\ w # last.ws
           /\ clients[w].readyState = "CLOSED"
           /\ Len(clients[w].inbox) >= 2

\* the last call was an ingestion or a sweep that returned normally
MutatingCall == last.op \in {"ingest", "gcTimer", "gcRun"} /\ ~raised

\* records of now that prev does not hold as they are, and ids of prev that
\* now lacks: the upserts, patches and removals of the last call
Changes(before, after) ==
    Cardinality({i \in 1..Len(after) :
                    \A j \in 1..Len(before) : before[j] # after[i]})
    + Cardinality(IdsOf(before) \ IdsOf(after))

MutationCount == Changes(prev.nodes, nodes) + Changes(prev.edges, edges)

\* w is in this.clients and open
Subscribed(w) == clients[w].member /\ clients[w].readyState = "OPEN"

\* the last n messages of an inbox
LastOf(inbox, n) == SubSeq(inbox, Len(inbox) - n + 1, Len(inbox))

(* C25: an ingestion or a sweep broadcasts at least one message for each    *)
(* node or edge it upserted, patched or removed, and every open socket of   *)
(* this.clients was sent these messages, in the order of the broadcasts.    *)
C25_EveryMutationHasItsDelta ==
    (MutatingCall /\ \E w \in Sockets : Subscribed(w)) =>
        /\ Len(sent) >= MutationCount
        /\ \A w \in Sockets :
               Subscribed(w) =>
                   /\ Len(clients[w].inbox) > Len(sent)
                   /\ LastOf(clients[w].inbox, Len(sent)) = JsonSeq(sent)

\* the last call broadcast something
Broadcasting == sent # <<>>

(* C26: a broadcast sends nothing to a socket of this.clients that is not   *)
(* open and does not throw; every open socket of this.clients is sent the   *)
(* messages.                                                                *)
C26_BroadcastSkipsClosedSockets ==
    Broadcasting =>
        /\ ~raised
        /\ \A w \in Sockets :
               LET before == prev.clients[w]
               IN  IF before.member /\ before.readyState = "OPEN"
                   THEN clients[w].inbox = before.inbox \o JsonSeq(sent)
                   ELSE clients[w].inbox = before.inbox

\* a broadcast with one closed and one open socket in this.clients
C26_Witness ==
    /\ Broadcasting
    /\ \E v, w \in Sockets :
           /\ prev.clients[v].member
           /\ prev.clients[v].readyState = "CLOSED"
           /\ prev.clients[w].member
           /\ prev.clients[w].readyState = "OPEN"
           /\ Len(clients[w].inbox) = 2

(* C27: a socket that a broadcast found not open is no longer in            *)
(* this.clients, the health query does not count it, and its failure        *)
(* changed no node and no edge.                                             *)
C27_BroadcastPrunesClosedSockets ==
    /\ \A w \in Sockets : clients[w].skipped => ~clients[w].member
    /\ (last.op = "health") =>
           ret.v.clients = Cardinality({w \in Sockets :
                               clients[w].member /\ ~clients[w].skipped})
    /\ last.op \in {"close", "error"} => nodes = prev.nodes /\ edges = prev.edges

\* the snapshot the last connection was sent
Snapshot == clients[last.ws].inbox[1].data

(* C28: the snapshot sent on a connection and the result of a metrics query *)
(* are those of the graph as a whole callback left it: none is taken        *)
(* between the statements of the agent:spawned listener or of a sweep.      *)
C28_ObserversSeeWholeMutations ==
    /\ (last.op = "connection") =>
           /\ Snapshot.nodes = JsonSeq(committed.nodes)
           /\ Snapshot.edges = JsonSeq(committed.edges)
    /\ (last.op = "calculateMetrics") =>
           ret = JsObject(Metrics(committed.nodes, committed.edges, last.at))

\* a connection that was sent a graph holding an agent and its edge
C28_Witness ==
    /\ last.op = "connection"
    /\ Len(Snapshot.nodes) = 1
    /\ clients[last.ws].inbox[1].type = "initial"
    /\ \E i \in 1..Len(Snapshot.edges) : Snapshot.edges[i].type = "ORCHESTRATES"

\* the last call was addNode for an id that was already stored
Reupserted ==
    /\ last.op = "addNode"
    /\ \E i \in 1..Len(prev.nodes) : prev.nodes[i].id = ret.v.id

\* a sweep of the present store would remove exactly one node, by its size
\* step
TrimsOne ==
    /\ ~(Len(nodes) < gcConfig.maxNodes /\ Len(edges) < gcConfig.maxEdges)
    /\ AgeStep(nodes, edges, now).nodes = nodes
    /\ Len(GcOutcome(nodes, edges, now).nodes) = Len(nodes) - 1

\* the store holds a removable node other than the one of id
TrimsOneOtherThan(id) ==
    /\ TrimsOne
    /\ \E i \in 1..Len(nodes) :
           nodes[i].id # id /\ nodes[i].type \notin gcConfig.preserveTypes

\* the node re-upserted by the last call was the first one stored
ReupsertedOldest ==
    /\ Reupserted
    /\ prev.nodes[1].id = ret.v.id
    /\ \A i \in 1..Len(prev.nodes) :
           prev.nodes[1].timestamp <= prev.nodes[i].timestamp

(* C31 as stated: whenever the node of the oldest first appearance is       *)
(* re-upserted and a sweep then trims one node, it trims a different node.  *)
C31_ReupsertedOldestNeverTrimmed ==
    (ReupsertedOldest /\ TrimsOne) =>
        ret.v.id \in IdsOf(GcOutcome(nodes, edges, now).nodes)

(* C31, amended: addNode for a stored id gives the node the time of this    *)
(* call as its timestamp, whatever its fields, and a sweep that then has    *)
(* to trim one node trims another one whenever the store holds another      *)
(* node of a type that is not preserved.                                    *)
C31_ReupsertRenewsTimestamp ==
    Reupserted =>
        /\ \E i \in 1..Len(nodes) :
               nodes[i].id = ret.v.id /\ nodes[i].timestamp = last.at
        /\ TrimsOneOtherThan(ret.v.id) =>
               ret.v.id \in IdsOf(GcOutcome(nodes, edges, now).nodes)

\* the node stored first is re-upserted with the same fields at a later
\* time, and the sweep of this store trims the other node
C31_Witness ==
    /\ Reupserted
    /\ prev.nodes[1].id = ret.v.id
    /\ prev.nodes[1].timestamp < last.at
    /\ Len(prev.nodes) = 2
    /\ prev.nodes[2].timestamp = prev.nodes[1].timestamp
    /\ TrimsOneOtherThan(ret.v.id)
    /\ IdsOf(GcOutcome(nodes, edges, now).nodes) = {ret.v.id}

(* C32: a metrics computation leaves graph.nodes and graph.edges, records   *)
(* included, as they were, and the JSON of this.graph, which the graph      *)
(* query and the initial message serve, is the same before and after it.    *)
C32_MetricsIsReadOnly ==
    (last.op = "calculateMetrics") =>
        /\ nodes = prev.nodes
        /\ edges = prev.edges
        /\ GraphJson(nodes, edges, metrics)
               = GraphJson(prev.nodes, prev.edges, prev.metrics)

(* C33: a timer-driven sweep runs only while this.gcInterval holds a        *)
(* handle, that is, never between a stopGarbageCollection and the next      *)
(* startGarbageCollection; stopGarbageCollection changes no node and no     *)
(* edge, and leaves no handle.                                              *)
C33_StopEndsTimerSweeps ==
    /\ (last.op = "gcTimer") => gcInterval
    /\ ~gcInterval => gcTimers = 0
    /\ (last.op = "stopGarbageCollection") =>
           /\ ~gcInterval
           /\ nodes = prev.nodes
           /\ edges = prev.edges
           /\ sent = <<>>

\* the ids of the stored nodes and edges
StoredIds(seq) == {seq[i].id : i \in 1..Len(seq)}

\* the ids simulateCollaboration can give an edge
CollabIds == {CollabId(t) : t \in 0..MaxTime}

\* records leave the store in sweeps and in the expiry callback only, and
\* that callback removes the edge of its id, nothing else, and says so once
ExpiryRemovesItsEdge ==
    /\ last.op \notin {"gcTimer", "gcRun", "collaborationExpiry"} =>
           /\ StoredIds(prev.nodes) \subseteq StoredIds(nodes)
           /\ StoredIds(prev.edges) \subseteq StoredIds(edges)
    /\ (last.op = "collaborationExpiry") =>
           /\ nodes = prev.nodes
           /\ edges = SelectSeq(prev.edges, LAMBDA e : e.id # last.id)
           /\ sent = <<Message("edge:removed", [id |-> last.id], last.at)>>
    /\ \A id \in StoredIds(edges) \cap CollabIds :
           \E timer \in timers : timer.id = id

(* C34: nodes and edges leave the store only in a sweep or in the expiry    *)
(* callback of a collaboration edge; every collaboration edge that          *)
(* simulateCollaboration adds is eventually gone from the store; the        *)
(* callback broadcasts one edge:removed naming the edge's id and removes    *)
(* no other edge.                                                           *)
C34_CollaborationEdgesExpire ==
    /\ []ExpiryRemovesItsEdge
    /\ \A id \in CollabIds :
           (id \in StoredIds(edges)) ~> (id \notin StoredIds(edges))

\* the callback has just removed the collaboration edge it was set for
C34_Witness ==
    /\ last.op = "collaborationExpiry"
    /\ last.id \in StoredIds(prev.edges)
    /\ last.id \notin StoredIds(edges)
    /\ Len(edges) = Len(prev.edges) - 1
    /\ Len(edges) > 0

(* C35: the ids in the DataSets of a client that applied its initial        *)
(* snapshot and every message after it are the ids of the stored nodes      *)
(* and edges, also after a gc:cleanup message.                              *)
C35_ClientViewTracksStore ==
    \A w \in Sockets :
        Subscribed(w) =>
            /\ ClientView(clients[w].inbox).nodes = StoredIds(nodes)
            /\ ClientView(clients[w].inbox).edges = StoredIds(edges)

\* the records of a sequence
Records(seq) == {seq[i] : i \in 1..Len(seq)}

(* C36: after a sweep the stored nodes are the nodes stored before it that  *)
(* are still stored, each record as it was and in the order they had, and   *)
(* the stored edges likewise.                                               *)
C36_SweepOnlyRemoves ==
    Swept =>
        /\ nodes = SelectSeq(prev.nodes, LAMBDA n : n \in Records(nodes))
        /\ edges = SelectSeq(prev.edges, LAMBDA e : e \in Records(edges))

\* a sweep that removed a node and an edge and left two nodes or more
C36_Witness ==
    /\ Swept
    /\ Len(nodes) < Len(prev.nodes)
    /\ Len(edges) < Len(prev.edges)
    /\ Len(nodes) >= 2
    /\ Len(edges) >= 1

(* C37: a sweep run on the store a sweep has just left, at the same clock   *)
(* value, removes nothing and broadcasts nothing.                           *)
C37_SweepIsIdempotent ==
    (Swept /\ last.at = now) =>
        GcOutcome(nodes, edges, now) = Outcome(nodes, edges, <<>>, FALSE)

\* a sweep that removed by age and by count, and passes the threshold test
\* again
C37_Witness ==
    /\ Swept
    /\ last.at = now
    /\ Len(nodes) < Len(prev.nodes)
    /\ Len(edges) < Len(prev.edges)
    /\ ~(Len(nodes) < gcConfig.maxNodes /\ Len(edges) < gcConfig.maxEdges)

(* C38: an addNode call whose data has no id stores its node under an id    *)
(* no stored node has, so the store grows by one node.                      *)
C38_GeneratedIdsAreFresh ==
    (last.op = "addNode" /\ ~Truthy(Get(last.data, "id"))) =>
        /\ ret.v.id \notin StoredIds(prev.nodes)
        /\ Len(nodes) = Len(prev.nodes) + 1
        /\ \A i \in 1..Len(prev.nodes) : nodes[i] = prev.nodes[i]

\* the last call patched a node: updateNode, or a task_progress event
Patched ==
    \/ last.op = "updateNode"
    \/ IsTaskProgress(last)

\* the id the last call patched
PatchedId ==
    IF last.op = "updateNode" THEN last.nodeId
    ELSE Get(EventData(last.event).v, "taskId")

(* C39: a patch leaves every node's timestamp as it was and adds no node;   *)
(* a sweep that passes the threshold test removes every patched node of a   *)
(* non-preserved type whose timestamp is before the cutoff; and a patch     *)
(* for an id that is not stored leaves the store as it was.                 *)
C39_PatchKeepsSweepTimestamp ==
    /\ Patched =>
           /\ Len(nodes) = Len(prev.nodes)
           /\ \A i \in 1..Len(nodes) :
                  /\ nodes[i].id = prev.nodes[i].id
                  /\ nodes[i].timestamp = prev.nodes[i].timestamp
           /\ PatchedId \notin StoredIds(prev.nodes) => nodes = prev.nodes
    /\ (Swept /\ ~UnderThresholds) =>
           \A i \in 1..Len(prev.nodes) :
               ( /\ "updated" \in DOMAIN prev.nodes[i]
                 /\ prev.nodes[i].type \notin gcConfig.preserveTypes
                 /\ prev.nodes[i].timestamp < last.at - gcConfig.maxAge )
               => prev.nodes[i].id \notin StoredIds(nodes)

\* a node patched after the clock moved on from its upsert is swept for
\* its age
C39_Witness ==
    /\ Swept
    /\ ~UnderThresholds
    /\ \E i \in 1..Len(prev.nodes) :
           /\ "updated" \in DOMAIN prev.nodes[i]
           /\ prev.nodes[i].updated > prev.nodes[i].timestamp
           /\ prev.nodes[i].updated = last.at
           /\ prev.nodes[i].id \notin StoredIds(nodes)

====
